---- MODULE Spec2Model ----
(***************************************************************************)
(* Model of the purchase orchestration of solidml/unlock:                  *)
(*   - the confirm components ConfirmCrossChainPurchase and                *)
(*     ConfirmSwapAndPurchase (the in-flight flag isConfirming, the click  *)
(*     handlers, onConfirm / onConfirmCrypto),                             *)
(*   - the wallet-side purchase function (purchaseKey): amount, approval,  *)
(*     gas estimate, submission, receipt.                                  *)
(* All source lines refer to                                               *)
(* src/unlock-app/src/components/interface/checkout/main/Confirm/          *)
(* ConfirmCrossChainPurchase.tsx.                                          *)
(***************************************************************************)
EXTENDS Integers, Sequences, FiniteSets, TLC

(***************************************************************************)
(* Bounds of the model.                                                    *)
(***************************************************************************)
\* receipts carry at most MaxLogs logs
MaxLogs == 2
\* confirm clicks per session
MaxClicks == 2
\* gas estimates are the multiples of GasStep up to GasStep * MaxGasSteps
GasStep == 5
MaxGasSteps == 2
\* Calls of the allowance step in a row, and the largest allowance or
\* required amount (in base units of the token).
MaxCalls == 3
MaxAmount == 3
\* Recipients of one purchase request.
MaxRecipients == 2
\* Calls made on the lock (purchase, setGasRefundBasisPoints) and blocks
\* mined, together.
MaxLockSteps == 2

(***************************************************************************)
(* Values.  An optional JavaScript value is <<>> when absent (undefined,   *)
(* null, deleted) and <<v>> when present.                                  *)
(***************************************************************************)
None == <<>>
Some(v) == <<v>>
\* JavaScript truthiness of an optional number: present and not 0.
Truthy(x) == x # None /\ x[1] # 0

\* An address is <<id, case>>: the same 20 bytes written in lower case ("l")
\* or in mixed (checksum) case ("m").  String equality distinguishes them.
ToLowerCase(a) == <<a[1], "l">>
\* The zero address has no letters: one spelling only.
ZERO == <<0, "l">>
LockLower == <<1, "l">>
LockMixed == <<1, "m">>
TokenA == <<2, "l">>
SwapPurchaser == <<3, "l">>
Recipient == <<4, "l">>
Signer == <<5, "l">>

\* A base-unit amount is <<m, e>>, the number m * 10^e in normal form (m not
\* divisible by 10, zero is <<0, 0>>): amounts at 18 decimals exceed the
\* range of the model checker's integers.
RECURSIVE Norm(_, _)
Norm(m, e) ==
    IF m = 0 THEN <<0, 0>>
    ELSE IF m % 10 = 0 THEN Norm(m \div 10, e + 1) ELSE <<m, e>>
\* a bigint already in base units
Wei(n) == Norm(n, 0)
\* utils.toDecimal(keyPrice, decimals): the nominal price in base units.
ToDecimal(keyPrice, decimals) == Norm(keyPrice, decimals)
\* decimals of the native currency (line 541)
NativeDecimals == 18

\* swap.amountInMax (lines 345-352): the quote q in base units plus 1%,
\* BigInt arithmetic (division truncates).
AmountInMaxNoBuffer(q) == q
AmountInMax(q) == (q * 101) \div 100

\* transactionOptions.gasLimit = (gasLimit * 13n) / 10n  (line 619)
BumpGas12(g) == (g * 12) \div 10
BumpGas(g) == (g * 13) \div 10


(***************************************************************************)
(* Receipts.  A log is [address, event, tokenId]; event is the name the    *)
(* log's topic stands for.                                                 *)
(***************************************************************************)
LogAddresses == {LockLower, LockMixed, TokenA}
\* Events of the lock's ABI (MixinPurchase, lines 699-703 and 771).
LockEvents == {"Transfer", "RenewKeyPurchase", "GasRefunded", "UnlockCallFailed"}
LogEvents == {"Transfer", "RenewKeyPurchase", "Approval"}
TokenIds == {1, 2}
Logs == [address : LogAddresses, event : LogEvents, tokenId : TokenIds]

RECURSIVE SeqsUpTo(_, _)
SeqsUpTo(S, n) ==
    IF n = 0 THEN {<<>>}
    ELSE LET shorter == SeqsUpTo(S, n - 1)
         IN  shorter \cup {Append(q, x) : q \in {r \in shorter : Len(r) = n - 1}, x \in S}

ReceiptsUpTo(n) == [status : {0, 1}, logs : SeqsUpTo(Logs, n)]
Receipts == ReceiptsUpTo(MaxLogs)

\* parser.parseLog(log) (line 668): the decoded event, or null for a log the
\* lock's interface does not know.
ParseLog(log) ==
    IF log.event \in LockEvents
    THEN Some([name |-> log.event, tokenId |-> log.tokenId])
    ELSE None

\* The callback of receipt.logs.map (lines 666-669): undefined for a log of
\* another address, else the parsed log.
MapLogAnyAddress(log, lockAddress) == ParseLog(log)
MapLog(log, lockAddress) ==
    IF ToLowerCase(log.address) # ToLowerCase(lockAddress)
    THEN None
    ELSE ParseLog(log)

\* .find((evt) => evt && evt.fragment?.name === 'Transfer')  (line 670)
IsTransfer(evt) == evt # None /\ evt[1].name = "Transfer"

\* transferEvent (lines 665-670): the first mapped log that is a Transfer,
\* None when there is none.
TransferEvent(logs, lockAddress) ==
    LET hits == {i \in DOMAIN logs : IsTransfer(MapLog(logs[i], lockAddress))}
    IN  IF hits = {} THEN None
        ELSE LET first == CHOOSE i \in hits : \A j \in hits : i <= j
             IN  MapLog(logs[first], lockAddress)

\* Lines 659-676: what purchaseKey does with the mined receipt.
ReceiptOutcomeIgnoringStatus(rcpt, lockAddress) ==
    LET ev == TransferEvent(rcpt.logs, lockAddress)
    IN  IF ev # None
        THEN [kind |-> "returned", value |-> Some(ev[1].tokenId), error |-> "none"]
        ELSE [kind |-> "returned", value |-> None, error |-> "none"]
ReceiptOutcomeThrowOnMissing(rcpt, lockAddress) ==
    LET ev == TransferEvent(rcpt.logs, lockAddress)
    IN  IF rcpt.status = 0 \/ ev = None
        THEN [kind |-> "threw", value |-> None, error |-> "Transaction failed"]
        ELSE [kind |-> "returned", value |-> Some(ev[1].tokenId), error |-> "none"]
ReceiptOutcome(rcpt, lockAddress) ==
    IF rcpt.status = 0
    THEN [kind |-> "threw", value |-> None, error |-> "Transaction failed"]
    ELSE LET ev == TransferEvent(rcpt.logs, lockAddress)
         IN  IF ev # None
             THEN [kind |-> "returned", value |-> Some(ev[1].tokenId), error |-> "none"]
             ELSE [kind |-> "returned", value |-> None, error |-> "none"]

(***************************************************************************)
(* State.                                                                  *)
(***************************************************************************)
VARIABLES
    \* --- the purchase function (purchaseKey, lines 490-677) ---
    pkIn,       \* its parameters
    pc,         \* the suspension point it is at
    loc,        \* its locals: owner, erc20Address, decimals, actualAmount, callData
    txOpts,     \* transactionOptions, mutated in place
    hist,       \* what it has done to the outside world, in order
    receipt,    \* the mined receipt, once waited for
    result,     \* pending, returned (value) or threw (error)
    \* --- the confirm component (lines 27-189 and 219-471) ---
    uiCfg,        \* which component is mounted, the renew flag, metadata present
    pricing,      \* the pricing query: idle, loading, error or ready
    isConfirming, \* the in-flight flag (useState, lines 36 and 236)
    machine,      \* state of the checkout state machine
    attempts,     \* one record per confirm click
    clicks        \* number of confirm clicks so far

pkVars == <<pkIn, pc, loc, txOpts, hist, receipt, result>>
uiVars == <<uiCfg, pricing, isConfirming, machine, attempts, clicks>>
vars == <<pkIn, pc, loc, txOpts, hist, receipt, result,
          uiCfg, pricing, isConfirming, machine, attempts, clicks>>

(***************************************************************************)
(* Inputs of the purchase function.                                        *)
(***************************************************************************)
Quotes == {99, 1000}
\* The swap object the confirm component builds (lines 340-353) from the
\* route: source token, native value to forward, quote in base units.
SwapOf(src, value, q) ==
    [srcTokenAddress |-> src, value |-> value, amountInMax |-> AmountInMax(q)]

\* Routes: the source token absent (native currency without an address), the
\* zero address or a token; the native value absent, zero or 7 wei.
SwapRoutes ==
    [src : {None, Some(ZERO), Some(TokenA)}, value : {None, Some(0), Some(7)},
     quote : Quotes]
\* purchaseKey is called with the swap of a route, or without a swap.
SwapInputs ==
    {[quote |-> None, swap |-> None]}
    \cup {[quote |-> Some(r.quote), swap |-> Some(SwapOf(r.src, r.value, r.quote))] :
            r \in SwapRoutes}

Pending == [kind |-> "pending", value |-> None, error |-> "none"]
NoReceipt == [status |-> 1, logs |-> <<>>]

NoOpts == [gasLimit |-> None, gasPrice |-> None, maxFeePerGas |-> None,
           maxPriorityFeePerGas |-> None, value |-> None]
\* Fee parameters as callers pass them: none, a legacy gas price, or the
\* two EIP-1559 fees.
CallerFees ==
    {[gasPrice |-> None, maxFeePerGas |-> None, maxPriorityFeePerGas |-> None],
     [gasPrice |-> Some(3), maxFeePerGas |-> None, maxPriorityFeePerGas |-> None],
     [gasPrice |-> None, maxFeePerGas |-> Some(9), maxPriorityFeePerGas |-> Some(2)]}
\* transactionOptions as callers pass them: without a gas limit, with a gas
\* limit of 0 or of 50, with or without fee parameters.
CallerOpts ==
    {[NoOpts EXCEPT !.gasLimit = g, !.gasPrice = f.gasPrice,
                    !.maxFeePerGas = f.maxFeePerGas,
                    !.maxPriorityFeePerGas = f.maxPriorityFeePerGas] :
        g \in {None, Some(0), Some(50)}, f \in CallerFees}

NoHist == [events |-> <<>>, approval |-> None, approvalTxs |-> 0,
           estimate |-> None, gas |-> None, built |-> None, sent |-> <<>>, callbacks |-> 0]

PkParams ==
    {[lockAddress |-> LockMixed, owner |-> o, keyPrice |-> kp, erc20Address |-> t,
      decimals |-> d, quote |-> sw.quote, swap |-> sw.swap, callback |-> cb,
      opts |-> op] :
        o \in {None, Some(Recipient)},
        kp \in {None, Some(25)},
        t \in {None, Some(ZERO), Some(TokenA)},
        d \in {None, Some(2)},
        sw \in SwapInputs,
        cb \in BOOLEAN,
        op \in CallerOpts}

\* purchaseKey has just been called and awaits getLockContract (line 504).
PkCalled(params) ==
    /\ pkIn = params
    /\ pc = "getLockContract"
    /\ loc = [owner |-> params.owner, erc20Address |-> params.erc20Address,
              decimals |-> params.decimals, actualAmount |-> None, callData |-> None]
    /\ txOpts = params.opts
    /\ hist = NoHist
    /\ receipt = NoReceipt
    /\ result = Pending

NoAttempt == [pc |-> "none", pricingData |-> FALSE, receipt |-> None,
              result |-> Pending,
              confirmed |-> 0, toast |-> None, errEvents |-> 0]

\* No confirm component takes part.
UiAbsent ==
    /\ uiCfg = [component |-> "none", renew |-> FALSE, metadata |-> FALSE]
    /\ pricing = "idle"
    /\ isConfirming = FALSE
    /\ machine = "CONFIRMING"
    /\ attempts = [a \in 1..MaxClicks |-> NoAttempt]
    /\ clicks = 0

InitPK ==
    /\ \E params \in PkParams : PkCalled(params)
    /\ UiAbsent

(***************************************************************************)
(* Answers of the chain and of the wallet.                                 *)
(***************************************************************************)
\* lockContract.tokenAddress()
LockTokens == {ZERO, TokenA}
\* lockContract.keyPrice(), in base units
LockPrices == {Norm(5, 18), Wei(2500)}
\* getErc20Decimals(erc20Address, provider)
TokenDecimals == {6}
\* provider.getFeeData(): legacy, EIP-1559, and a zero priority fee
FeeDatas ==
    {[gasPrice |-> Some(3), maxFeePerGas |-> None, maxPriorityFeePerGas |-> None],
     [gasPrice |-> Some(3), maxFeePerGas |-> Some(4), maxPriorityFeePerGas |-> Some(1)]}
\* estimateGas
GasEstimates == {GasStep * k : k \in 0..MaxGasSteps}
\* receipts the orchestration is run against
SampleReceipts ==
    LET transfer(a, id) == [address |-> a, event |-> "Transfer", tokenId |-> id]
    IN  {[status |-> 0, logs |-> <<transfer(LockLower, 1)>>],
         [status |-> 1, logs |-> <<transfer(TokenA, 2), transfer(LockLower, 1)>>],
         [status |-> 1, logs |-> <<transfer(TokenA, 2)>>],
         [status |-> 1, logs |-> <<>>]}

(***************************************************************************)
(* The purchase function, one action per suspension point.                 *)
(***************************************************************************)
Ev(h, e) == [h EXCEPT !.events = Append(@, e)]

Step(npc, nloc, nopts, nhist) ==
    /\ pc' = npc
    /\ loc' = nloc
    /\ txOpts' = nopts
    /\ hist' = nhist
    /\ UNCHANGED <<pkIn, receipt, result>>
    /\ UNCHANGED uiVars

\* A rejected await is not caught (except in the gas estimate): the function
\* rejects with that error.
ThrowWrapped(e, nhist) ==
    /\ pc' = "threw"
    /\ result' = [kind |-> "threw", value |-> None, error |-> "Error"]
    /\ hist' = nhist
    /\ UNCHANGED <<pkIn, loc, txOpts, receipt>>
    /\ UNCHANGED uiVars
Throw(e, nhist) ==
    /\ pc' = "threw"
    /\ result' = [kind |-> "threw", value |-> None, error |-> e]
    /\ hist' = nhist
    /\ UNCHANGED <<pkIn, loc, txOpts, receipt>>
    /\ UNCHANGED uiVars

\* line 504: await this.getLockContract(lockAddress)
PK_GetLockContract ==
    /\ pc = "getLockContract"
    /\ \E ok \in BOOLEAN :
        IF ok THEN Step("getAddress", loc, txOpts, Ev(hist, "getLockContract"))
        ELSE Throw("getLockContract", Ev(hist, "getLockContract"))

\* lines 513-515: if (!owner) owner = await this.signer.getAddress()
PK_GetAddress ==
    /\ pc = "getAddress"
    /\ IF loc.owner # None
       THEN Step("tokenAddress", loc, txOpts, hist)
       ELSE \E ok \in BOOLEAN :
            IF ok THEN Step("tokenAddress", [loc EXCEPT !.owner = Some(Signer)],
                            txOpts, Ev(hist, "getAddress"))
            ELSE Throw("getAddress", Ev(hist, "getAddress"))

\* lines 526-528: if (!erc20Address) erc20Address = await lockContract.tokenAddress()
PK_TokenAddress ==
    /\ pc = "tokenAddress"
    /\ IF loc.erc20Address # None
       THEN Step("amount", loc, txOpts, hist)
       ELSE \E ok \in BOOLEAN :
            IF ok THEN \E t \in LockTokens :
                            Step("amount", [loc EXCEPT !.erc20Address = Some(t)],
                                 txOpts, Ev(hist, "tokenAddress"))
            ELSE Throw("tokenAddress", Ev(hist, "tokenAddress"))

\* erc20Address && erc20Address !== ZERO  (lines 538, 553, 576)
IsErc20ZeroIncluded(t) == t # None
IsErc20Always(t) == TRUE
IsErc20(t) == t # None /\ t[1] # ZERO

\* lines 529-544: where the amount comes from.  keyPrice is a decimal
\* string, absent when not given.
AmountSourceIgnoringDecimals(keyPrice, decimals, erc20Address) ==
    IF keyPrice = None THEN "keyPrice"
    ELSE IF IsErc20(erc20Address) THEN "decimals"
    ELSE "native"
AmountSource(keyPrice, decimals, erc20Address) ==
    IF keyPrice = None THEN "keyPrice"
    ELSE IF decimals # None THEN "given"
    ELSE IF IsErc20(erc20Address) THEN "decimals"
    ELSE "native"

PK_Amount ==
    /\ pc = "amount"
    /\ LET src == AmountSource(pkIn.keyPrice, loc.decimals, loc.erc20Address)
       IN  CASE src = "keyPrice" ->
                 \E ok \in BOOLEAN :
                    IF ok THEN \E p \in LockPrices :
                                Step("prepare", [loc EXCEPT !.actualAmount = Some(p)],
                                     txOpts, Ev(hist, "keyPrice"))
                    ELSE Throw("keyPrice", Ev(hist, "keyPrice"))
             [] src = "given" ->
                 Step("prepare",
                      [loc EXCEPT !.actualAmount =
                            Some(ToDecimal(pkIn.keyPrice[1], loc.decimals[1]))],
                      txOpts, hist)
             [] src = "decimals" ->
                 \E ok \in BOOLEAN :
                    IF ok THEN \E d \in TokenDecimals :
                                Step("prepare",
                                     [loc EXCEPT !.decimals = Some(d),
                                                 !.actualAmount =
                                                    Some(ToDecimal(pkIn.keyPrice[1], d))],
                                     txOpts, Ev(hist, "decimals"))
                    ELSE Throw("decimals", Ev(hist, "decimals"))
             [] src = "native" ->
                 Step("prepare",
                      [loc EXCEPT !.decimals = Some(NativeDecimals),
                                  !.actualAmount =
                                     Some(ToDecimal(pkIn.keyPrice[1], NativeDecimals))],
                      txOpts, hist)

\* lines 563-573: approvalOptions
ApprovalOptions(swap, erc20Address, lockAddress, actualAmount) ==
    IF swap # None
    THEN [erc20Address |-> swap[1].srcTokenAddress, address |-> SwapPurchaser,
          totalAmountToApprove |-> Wei(swap[1].amountInMax)]
    ELSE [erc20Address |-> erc20Address, address |-> lockAddress,
          totalAmountToApprove |-> actualAmount]

\* lines 552-560: transactionOptions.value
ValueOptionAlwaysAmount(opts, swap, erc20Address, actualAmount) ==
    [opts EXCEPT !.value = Some(actualAmount)]
ValueOption(opts, swap, erc20Address, actualAmount) ==
    LET direct == IF ~IsErc20(erc20Address)
                  THEN [opts EXCEPT !.value = Some(actualAmount)]
                  ELSE opts
    IN  IF swap # None /\ Truthy(swap[1].value)
        THEN [direct EXCEPT !.value = Some(Wei(swap[1].value[1]))]
        ELSE direct

\* lines 576-578: approveAllowance is awaited when the token is an ERC20.
NoAwaitApproval(needed) == "feeData"
AwaitApproval(needed) == IF needed THEN "approve" ELSE "feeData"

\* lines 546-577, run without suspension: encode the purchase call data, set
\* the value, build approvalOptions and call approveAllowance if needed.
PK_Prepare ==
    /\ pc = "prepare"
    /\ LET amount == loc.actualAmount[1]
           callData == [amount |-> amount, owner |-> loc.owner[1]]
           opts == ValueOption(txOpts, pkIn.swap, loc.erc20Address, amount)
           approval == ApprovalOptions(pkIn.swap, loc.erc20Address,
                                       pkIn.lockAddress, amount)
           needed == IsErc20(approval.erc20Address)
           h1 == Ev(hist, "encode")
           h2 == IF needed
                 THEN [Ev(h1, "approve:call") EXCEPT !.approval = Some(approval)]
                 ELSE h1
       IN  Step(AwaitApproval(needed), [loc EXCEPT !.callData = Some(callData)],
                opts, h2)

\* approveAllowance (imported, line 476): whether it sends an approval
\* transaction, given whether the current allowance covers the amount.
ApprovalTxsAlways(covered) == 1
ApprovalTxsFor(covered) == IF covered THEN 0 ELSE 1

\* line 577: a rejected approveAllowance rejects purchaseKey.
ApprovalNeverRejects(mined) == FALSE
ApprovalRejects(mined) == ~mined

\* line 577: await approveAllowance(approvalOptions) settles: it rejects
\* before any transaction (the allowance is not read), finds the allowance
\* sufficient, or sends an approval transaction that is mined or fails.
PK_Approve ==
    /\ pc = "approve"
    /\ \E read \in BOOLEAN, covered \in BOOLEAN, mined \in BOOLEAN :
        LET txs == IF read THEN ApprovalTxsFor(covered) ELSE 0
            h1 == [hist EXCEPT !.approvalTxs = @ + txs]
        IN  /\ (read /\ txs = 0 => mined)
            /\ (~read => covered /\ ~mined)
            /\ IF ApprovalRejects(mined)
               THEN Throw("approval", Ev(h1, "approve:failed"))
               ELSE Step("feeData", loc, txOpts,
                         Ev(h1, IF mined THEN "approve:done" ELSE "approve:failed"))

\* lines 588-593: the fee parameters set for the estimate.
WithFeeData(opts, fd) ==
    IF Truthy(fd.maxFeePerGas) /\ Truthy(fd.maxPriorityFeePerGas)
    THEN [opts EXCEPT !.maxFeePerGas = fd.maxFeePerGas,
                      !.maxPriorityFeePerGas = fd.maxPriorityFeePerGas]
    ELSE [opts EXCEPT !.gasPrice = fd.gasPrice]

\* lines 616-618 and 625-627: delete the three fee parameters.
DeleteNoFees(opts) == opts
DeleteFees(opts) ==
    [opts EXCEPT !.maxFeePerGas = None, !.maxPriorityFeePerGas = None,
                 !.gasPrice = None]

\* lines 620-628: the catch of the gas estimate.
GasFailureKeepsFees(opts) == opts
GasFailure(opts) == DeleteFees(opts)

\* lines 614-619: a successful estimate g.
GasSuccess(opts, g) == [DeleteFees(opts) EXCEPT !.gasLimit = Some(BumpGas(g))]

\* The spending call with its arguments (lines 595-612 and 631-648).
SpendingCall(swap, lockAddress, amount, owner, callData, opts) ==
    IF swap # None
    THEN [method |-> "swapAndCall", lock |-> lockAddress,
          srcToken |-> IF swap[1].srcTokenAddress # None
                       THEN swap[1].srcTokenAddress[1] ELSE ZERO,
          amount |-> amount, amountInMax |-> Some(swap[1].amountInMax),
          owner |-> owner, callData |-> callData, opts |-> opts]
    ELSE [method |-> "purchase", lock |-> lockAddress, srcToken |-> ZERO,
          amount |-> amount, amountInMax |-> None,
          owner |-> owner, callData |-> None, opts |-> opts]

ThisCall(opts) ==
    SpendingCall(pkIn.swap, pkIn.lockAddress, loc.actualAmount[1], loc.owner[1],
                 loc.callData, opts)

\* lines 581-593: if (!transactionOptions.gasLimit) await provider.getFeeData()
PK_FeeData ==
    /\ pc = "feeData"
    /\ IF Truthy(txOpts.gasLimit)
       THEN Step("build", loc, txOpts, hist)
       ELSE \E ok \in BOOLEAN :
            IF ok
            THEN \E fd \in FeeDatas :
                    Step("estimateGas", loc, WithFeeData(txOpts, fd),
                         Ev(hist, "feeData"))
            ELSE Step("build", loc, GasFailure(txOpts), Ev(hist, "feeData:failed"))

\* lines 595-619: await the estimate of the spending call.
PK_EstimateGas ==
    /\ pc = "estimateGas"
    /\ LET h1 == [hist EXCEPT !.estimate = Some(ThisCall(txOpts))]
       IN  \E ok \in BOOLEAN :
            IF ok
            THEN \E g \in GasEstimates :
                    Step("build", loc, GasSuccess(txOpts, g),
                         [Ev(h1, "estimateGas") EXCEPT !.gas = Some(g)])
            ELSE Step("build", loc, GasFailure(txOpts), Ev(h1, "estimateGas:failed"))

\* lines 631-648: the spending call is made (transactionPromise).
PK_Build ==
    /\ pc = "build"
    /\ Step("handleMethodCall", loc, txOpts,
            [Ev(hist, "build") EXCEPT !.built = Some(ThisCall(txOpts))])

\* lines 652-654: if (callback) callback(null, hash, await transactionPromise)
CallbackCallsTwice(callback) == IF callback THEN 2 ELSE 0
CallbackCalls(callback) == IF callback THEN 1 ELSE 0

\* line 650: await _handleMethodCall(transactionPromise) gives the hash of
\* the broadcast transaction.  With a callback the function then awaits
\* transactionPromise (line 653); without one it goes on to the receipt.
PK_HandleMethodCall ==
    /\ pc = "handleMethodCall"
    /\ \E ok \in BOOLEAN :
        IF ok
        THEN Step(IF pkIn.callback THEN "callback" ELSE "waitForTransaction", loc, txOpts,
                  [Ev(hist, "broadcast") EXCEPT !.sent = Append(@, hist.built[1])])
        ELSE Throw("sendTransaction", Ev(hist, "broadcast:failed"))

\* lines 652-654: callback(null, hash, await transactionPromise): the
\* function suspends at the await and then calls the callback.  The hash of
\* line 650 was read from transactionPromise, which is therefore fulfilled
\* and stays so: this await cannot reject.
PK_Callback ==
    /\ pc = "callback"
    /\ Step("waitForTransaction", loc, txOpts,
            [Ev(hist, "callback") EXCEPT
                  !.callbacks = @ + CallbackCalls(pkIn.callback)])

\* lines 657-676: the receipt is mined and interpreted.
PK_WaitForTransaction(receipts) ==
    /\ pc = "waitForTransaction"
    /\ \E r \in receipts :
        LET out == ReceiptOutcome(r, pkIn.lockAddress)
        IN  /\ receipt' = r
            /\ result' = out
            /\ pc' = out.kind
            /\ hist' = Ev(hist, "receipt")
            /\ UNCHANGED <<pkIn, loc, txOpts>>
            /\ UNCHANGED uiVars

\* line 657: provider.waitForTransaction rejects.
PK_WaitRejects ==
    /\ pc = "waitForTransaction"
    /\ Throw("waitForTransaction", Ev(hist, "receipt:failed"))

NextPK ==
    \/ PK_GetLockContract
    \/ PK_GetAddress
    \/ PK_TokenAddress
    \/ PK_Amount
    \/ PK_Prepare
    \/ PK_Approve
    \/ PK_FeeData
    \/ PK_EstimateGas
    \/ PK_Build
    \/ PK_HandleMethodCall
    \/ PK_Callback
    \/ PK_WaitForTransaction(SampleReceipts)
    \/ PK_WaitRejects

SpecPK == InitPK /\ [][NextPK]_vars

(***************************************************************************)
(* End-to-end scenario A, a native-currency purchase with the caller's gas *)
(* limit, run against every receipt of up to MaxLogs logs.                 *)
(***************************************************************************)
ScenarioA ==
    {[lockAddress |-> l, owner |-> Some(Recipient), keyPrice |-> None,
      erc20Address |-> Some(ZERO), decimals |-> None, quote |-> None,
      swap |-> None, callback |-> TRUE,
      opts |-> [NoOpts EXCEPT !.gasLimit = Some(50)]] : l \in {LockLower, LockMixed}}

InitReceipt ==
    /\ \E params \in ScenarioA : PkCalled(params)
    /\ UiAbsent

NextReceipt ==
    \/ PK_GetLockContract
    \/ PK_GetAddress
    \/ PK_TokenAddress
    \/ PK_Amount
    \/ PK_Prepare
    \/ PK_FeeData
    \/ PK_Build
    \/ PK_HandleMethodCall
    \/ PK_Callback
    \/ PK_WaitForTransaction(Receipts)
    \/ PK_WaitRejects

SpecReceipt == InitReceipt /\ [][NextReceipt]_vars

(***************************************************************************)
(* The allowance step (approveAllowance, called at line 577), called       *)
(* several times in a row for one owner and one spender.  hist holds the   *)
(* token's allowance and one record per call that has ended.               *)
(***************************************************************************)
\* The current allowance meets the requirement.
Covers(allowance, required) == allowance >= required

AllowanceHist(allowance, calls, txs) ==
    [allowance |-> allowance, calls |-> calls, txs |-> txs]

\* The record of the call that ends now.
CallEnded(outcome, txs) ==
    [token |-> pkIn.erc20Address, required |-> pkIn.totalAmountToApprove,
     before |-> hist.allowance, txs |-> txs, outcome |-> outcome]

InitAllowance ==
    /\ pkIn = [erc20Address |-> ZERO, address |-> LockMixed, totalAmountToApprove |-> 0]
    /\ pc = "idle"
    /\ loc = None
    /\ txOpts = NoOpts
    /\ hist \in {AllowanceHist(n, <<>>, 0) : n \in 0..MaxAmount}
    /\ receipt = NoReceipt
    /\ result = Pending
    /\ UiAbsent

AllowanceStep(npc, nhist) ==
    /\ pc' = npc
    /\ hist' = nhist
    /\ UNCHANGED <<pkIn, loc, txOpts, receipt, result>>
    /\ UNCHANGED uiVars

\* approveAllowance(approvalOptions) is called: for the native sentinel it
\* returns at once, else it reads the allowance.
AA_Call ==
    /\ pc \in {"idle", "returned", "threw"}
    /\ Len(hist.calls) < MaxCalls
    /\ \E t \in {ZERO, TokenA}, required \in 1..MaxAmount :
        /\ pkIn' = [erc20Address |-> t, address |-> LockMixed,
                    totalAmountToApprove |-> required]
        /\ pc' = "allowance"
        /\ hist' = [hist EXCEPT !.txs = 0]
        /\ UNCHANGED <<loc, txOpts, receipt, result>>
        /\ UNCHANGED uiVars

\* The allowance is read; an approval transaction is submitted when it does
\* not cover the requirement.
AA_Allowance ==
    /\ pc = "allowance"
    /\ IF pkIn.erc20Address = ZERO
       THEN AllowanceStep("returned",
                [hist EXCEPT !.calls = Append(@, CallEnded("returned", 0))])
       ELSE \E ok \in BOOLEAN :
            IF ~ok
            THEN AllowanceStep("threw",
                    [hist EXCEPT !.calls = Append(@, CallEnded("threw", 0))])
            ELSE LET txs == ApprovalTxsFor(Covers(hist.allowance,
                                                  pkIn.totalAmountToApprove))
                 IN  IF txs = 0
                     THEN AllowanceStep("returned",
                            [hist EXCEPT !.calls = Append(@, CallEnded("returned", 0))])
                     ELSE AllowanceStep("approving", [hist EXCEPT !.txs = @ + txs])

\* The approval transaction is mined, and sets the allowance to the cap, or
\* reverts.
AA_ApprovalSettles ==
    /\ pc = "approving"
    /\ \E mined \in BOOLEAN :
        IF mined
        THEN AllowanceStep("returned",
                [hist EXCEPT !.allowance = pkIn.totalAmountToApprove,
                             !.calls = Append(@, CallEnded("returned", hist.txs))])
        ELSE AllowanceStep("threw",
                [hist EXCEPT !.calls = Append(@, CallEnded("threw", hist.txs))])

NextAllowance ==
    \/ AA_Call
    \/ AA_Allowance
    \/ AA_ApprovalSettles

SpecAllowance == InitAllowance /\ [][NextAllowance]_vars

(***************************************************************************)
(* The confirm components.  ConfirmCrossChainPurchase sends the route's    *)
(* transaction; ConfirmSwapAndPurchase calls extendKey (renew) or          *)
(* purchaseKeys with the swap.                                             *)
(***************************************************************************)
UiConfigs ==
    {[component |-> "crosschain", renew |-> FALSE, metadata |-> m] : m \in BOOLEAN}
    \cup {[component |-> "swap", renew |-> r, metadata |-> m] :
                r \in BOOLEAN, m \in BOOLEAN}

\* lines 98 and 356-381: the wallet call the component makes.
WalletCallIgnoringRenew(cfg) ==
    IF cfg.component = "crosschain" THEN "sendTransaction" ELSE "purchaseKeys"
WalletCall(cfg) ==
    IF cfg.component = "crosschain" THEN "sendTransaction"
    ELSE IF cfg.renew THEN "extendKey"
    ELSE "purchaseKeys"

\* error.code values the wallet rejects with (lines 80-83, 303-306)
ErrorCodes == {"-32000", "4001", "ACTION_REJECTED", "OTHER"}

\* onError (lines 78-89, 301-312): the toast shown.
OnErrorMessageOnly(code) == "error.message"
OnError(code) ==
    IF code \in {"-32000", "4001", "ACTION_REJECTED"}
    THEN "Transaction rejected."
    ELSE "error.message"

InitUI ==
    /\ uiCfg \in UiConfigs
    /\ pricing \in {"idle", "loading"}
    /\ isConfirming = FALSE
    /\ machine = "CONFIRMING"
    /\ attempts = [a \in 1..MaxClicks |-> NoAttempt]
    /\ clicks = 0
    /\ pkIn = [lockAddress |-> LockMixed]
    /\ pc = "idle"
    /\ loc = None
    /\ txOpts = NoOpts
    /\ hist = NoHist
    /\ receipt = NoReceipt
    /\ result = Pending

\* usePricing (lines 54-76, 275-297)
UI_PricingStarts ==
    /\ pricing = "idle"
    /\ pricing' = "loading"
    /\ UNCHANGED <<uiCfg, isConfirming, machine, attempts, clicks>>
    /\ UNCHANGED pkVars

UI_PricingSettles ==
    /\ pricing = "loading"
    /\ pricing' \in {"ready", "error"}
    /\ UNCHANGED <<uiCfg, isConfirming, machine, attempts, clicks>>
    /\ UNCHANGED pkVars

\* disabled={isConfirming || isLoading || isPricingDataError}  (lines 172, 454)
ButtonDisabled(flag, pr) == flag \/ pr \in {"loading", "error"}

\* onConfirmed (a prop of the component): the state machine leaves
\* CONFIRMING for MINTING.
OnConfirmed(m) == "MINTING"

\* lines 91-97 and 314-355, run without suspension up to the await of
\* getWalletService: return when there is no pricing data, else set the flag.
OnConfirmStartUnguarded(a, atts) ==
    /\ attempts' = [atts EXCEPT ![a].pc = "getWalletService"]
    /\ isConfirming' = TRUE
OnConfirmStart(a, atts) ==
    IF ~atts[a].pricingData
    THEN /\ attempts' = [atts EXCEPT ![a].pc = "returned"]
         /\ UNCHANGED isConfirming
    ELSE /\ attempts' = [atts EXCEPT ![a].pc = "getWalletService"]
         /\ isConfirming' = TRUE

\* Button onClick (lines 173-179, 455-461): await the metadata update when
\* there is metadata, then call onConfirm / onConfirmCrypto.
UI_Click ==
    /\ machine = "CONFIRMING"
    /\ clicks < MaxClicks
    /\ ~ButtonDisabled(isConfirming, pricing)
    /\ clicks' = clicks + 1
    /\ LET a == clicks + 1
           clicked == [attempts EXCEPT ![a].pricingData = (pricing = "ready")]
       IN  IF uiCfg.metadata
           THEN /\ attempts' = [clicked EXCEPT ![a].pc = "metadata"]
                /\ UNCHANGED isConfirming
           ELSE OnConfirmStart(a, clicked)
    /\ UNCHANGED <<uiCfg, pricing, machine>>
    /\ UNCHANGED pkVars

\* lines 176-178, 458-460: updateUsersMetadata settles; on success the
\* handler goes on to onConfirm, on failure the handler rejects.
UI_MetadataSettles ==
    \E a \in 1..MaxClicks, ok \in BOOLEAN :
        /\ attempts[a].pc = "metadata"
        /\ IF ok
           THEN OnConfirmStart(a, attempts)
           ELSE /\ attempts' = [attempts EXCEPT ![a].pc = "aborted"]
                /\ UNCHANGED isConfirming
        /\ UNCHANGED <<uiCfg, pricing, machine, clicks>>
        /\ UNCHANGED pkVars

\* setIsConfirming(false) in the catch (lines 101, 383)
FlagAfterCatchStale(flag) == flag
FlagAfterCatch(flag) == FALSE

\* catch (lines 100-103, 382-385): reset the flag, show the error.
Catch(a, code, rcpt, res) ==
    /\ attempts' = [attempts EXCEPT ![a].pc = "failed", ![a].result = res,
                                    ![a].receipt = IF rcpt = None THEN @ ELSE Some(rcpt),
                                    ![a].toast = Some(OnError(code))]
    /\ isConfirming' = FlagAfterCatch(isConfirming)
    /\ UNCHANGED <<uiCfg, pricing, machine, clicks>>
    /\ UNCHANGED pkVars

Threw(e) == [kind |-> "threw", value |-> None, error |-> e]

\* lines 97, 355: await getWalletService(network); then the wallet call is
\* made (lines 98, 357, 366).
UI_GetWalletService ==
    \E a \in 1..MaxClicks :
        /\ attempts[a].pc = "getWalletService"
        /\ \E ok \in BOOLEAN :
            IF ok
            THEN /\ attempts' = [attempts EXCEPT ![a].pc = "wallet"]
                 /\ UNCHANGED <<uiCfg, pricing, isConfirming, machine, clicks>>
                 /\ UNCHANGED pkVars
            ELSE Catch(a, "OTHER", None, Threw("getWalletService"))

\* The wallet call rejects before anything is broadcast (the signer
\* declines, an approval or the submission fails).
UI_WalletRejects ==
    \E a \in 1..MaxClicks, code \in ErrorCodes :
        /\ attempts[a].pc = "wallet"
        /\ Catch(a, code, None, Threw(code))

\* lines 98-99: sendTransaction resolves with the transaction.
UI_SendTransactionResolves ==
    \E a \in 1..MaxClicks :
        /\ WalletCall(uiCfg) = "sendTransaction"
        /\ attempts[a].pc = "wallet"
        /\ attempts' = [attempts EXCEPT ![a].pc = "done", ![a].confirmed = @ + 1]
        /\ machine' = OnConfirmed(machine)
        /\ UNCHANGED <<uiCfg, pricing, isConfirming, clicks>>
        /\ UNCHANGED pkVars

\* lines 357-364: extendKey resolves; nothing follows the await.
UI_ExtendKeyResolves ==
    \E a \in 1..MaxClicks :
        /\ WalletCall(uiCfg) = "extendKey"
        /\ attempts[a].pc = "wallet"
        /\ attempts' = [attempts EXCEPT ![a].pc = "done"]
        /\ UNCHANGED <<uiCfg, pricing, isConfirming, machine, clicks>>
        /\ UNCHANGED pkVars

\* onErrorCallback(error, hash) (lines 328-339): whether onConfirmed is called.
CallbackConfirms(error, hash) == error = None /\ hash # None

\* onErrorCallback(error, hash) (lines 330-335): the number of CONFIRM_MINT
\* events with status ERROR sent to the state machine.
CallbackErrorEvents(error, hash) == IF error # None THEN 1 ELSE 0

\* purchaseKey calls the callback with the hash (lines 652-654), which is
\* onErrorCallback (lines 328-339): reset the flag, report the hash.
UI_PurchaseKeysHash ==
    \E a \in 1..MaxClicks :
        /\ WalletCall(uiCfg) = "purchaseKeys"
        /\ attempts[a].pc = "wallet"
        /\ isConfirming' = FALSE
        /\ LET sent == CallbackErrorEvents(None, Some("hash"))
           IN  IF CallbackConfirms(None, Some("hash"))
               THEN /\ attempts' = [attempts EXCEPT ![a].pc = "mining",
                                                    ![a].confirmed = @ + 1,
                                                    ![a].errEvents = @ + sent]
                    /\ machine' = OnConfirmed(machine)
               ELSE /\ attempts' = [attempts EXCEPT ![a].pc = "mining",
                                                    ![a].errEvents = @ + sent]
                    /\ UNCHANGED machine
        /\ UNCHANGED <<uiCfg, pricing, clicks>>
        /\ UNCHANGED pkVars

\* purchaseKey settles after the callback: provider.waitForTransaction
\* rejects (line 657) and there is no receipt, or the receipt is mined and
\* read (lines 659-676); the component ignores the value (line 366) and
\* catches the error (line 382).
UI_PurchaseKeysSettles ==
    \E a \in 1..MaxClicks, r \in ReceiptsUpTo(1), mined \in BOOLEAN :
        /\ WalletCall(uiCfg) = "purchaseKeys"
        /\ attempts[a].pc = "mining"
        /\ (~mined => r = NoReceipt)
        /\ LET out == ReceiptOutcome(r, pkIn.lockAddress)
           IN  IF ~mined
               THEN Catch(a, "OTHER", None, Threw("waitForTransaction"))
               ELSE IF out.kind = "threw"
               THEN Catch(a, "OTHER", r, out)
               ELSE /\ attempts' = [attempts EXCEPT ![a].pc = "done",
                                                    ![a].receipt = Some(r),
                                                    ![a].result = out]
                    /\ UNCHANGED <<uiCfg, pricing, isConfirming, machine, clicks>>
                    /\ UNCHANGED pkVars

NextUI ==
    \/ UI_PricingStarts
    \/ UI_PricingSettles
    \/ UI_Click
    \/ UI_MetadataSettles
    \/ UI_GetWalletService
    \/ UI_WalletRejects
    \/ UI_SendTransactionResolves
    \/ UI_ExtendKeyResolves
    \/ UI_PurchaseKeysHash
    \/ UI_PurchaseKeysSettles

SpecUI == InitUI /\ [][NextUI]_vars

(***************************************************************************)
(* The purchase request ConfirmSwapAndPurchase builds (lines 245-262 and   *)
(* 320-377) from the checkout context and the pricing data.  pkIn holds    *)
(* the context, hist the arguments of the wallet call once it is made.     *)
(***************************************************************************)
\* Arrays of n elements v.
Fill(n, v) == [i \in 1..n |-> v]
ArraysUpTo(n, v) == {Fill(k, v) : k \in 0..n}

\* paywallConfig.recurringPayments: absent, 'forever' or a number, written
\* as the fraction count / den (den > 0).
Forever == [forever |-> TRUE, count |-> 0, den |-> 1]
Fraction(n, d) == [forever |-> FALSE, count |-> n, den |-> d]
Count(n) == Fraction(n, 1)
RecurringInputs ==
    {None, Some(Forever), Some(Count(0)), Some(Count(12)), Some(Count(-3)),
     Some(Fraction(5, 2)), Some(Fraction(-5, 2)), Some(Fraction(1, 2))}
\* Math.abs
Abs(x) == IF x < 0 THEN 0 - x ELSE x
\* Math.floor of n / d, d > 0
Floor(n, d) == n \div d

\* lines 249-254
TotalApproval(recurringPayment, method) ==
    IF recurringPayment # None /\ recurringPayment[1].forever /\ method = "crypto"
    THEN Some("MAX_UINT")
    ELSE None

\* lines 256-258: Math.abs(Math.floor(Number(recurringPayment))), absent when
\* recurringPayment is falsy (absent or the number 0); Number('forever') is
\* NaN, which is falsy as 0 is and is written 0 here.
RecurringPaymentAmount(recurringPayment) ==
    IF recurringPayment = None THEN None
    ELSE IF recurringPayment[1].forever THEN Some(0)
    ELSE IF recurringPayment[1].count = 0 THEN None
    ELSE Some(Abs(Floor(recurringPayment[1].count, recurringPayment[1].den)))

\* lines 260-262
RecurringPayments(recurringPayment, recipients) ==
    IF Truthy(RecurringPaymentAmount(recurringPayment))
    THEN Some(Fill(Len(recipients), RecurringPaymentAmount(recurringPayment)[1]))
    ELSE None

\* lines 320-322: one price per item of pricingData.prices.
KeyPrices(prices, recipients, keyPrice) == [i \in DOMAIN prices |-> prices[i]]

\* lines 324-326: one referrer per recipient.
Referrers(recipients) == [i \in DOMAIN recipients |-> ZERO]

\* line 372: keyManagers?.length ? keyManagers : undefined
KeyManagersArg(keyManagers) ==
    IF keyManagers # None /\ Len(keyManagers[1]) > 0 THEN keyManagers ELSE None

\* lines 367-377: the first argument of purchaseKeys.
PurchaseKeysArgs(ctx) ==
    [lockAddress |-> ctx.lockAddress,
     keyPrices |-> Some(KeyPrices(ctx.prices, ctx.recipients, ctx.keyPrice)),
     owners |-> ctx.recipients,
     data |-> ctx.purchaseData,
     keyManagers |-> KeyManagersArg(ctx.keyManagers),
     recurringPayments |-> RecurringPayments(ctx.recurringPayment, ctx.recipients),
     referrers |-> Some(Referrers(ctx.recipients)),
     totalApproval |-> TotalApproval(ctx.recurringPayment, ctx.method),
     swap |-> SwapOf(ctx.route.src, ctx.route.value, ctx.route.quote)]

\* recipients?.[0], purchaseData?.[0] || '0x', referrers?.[0]  (lines 360-362)
FirstOr(array, default) ==
    IF array # None /\ Len(array[1]) > 0 THEN array[1][1] ELSE default

\* lines 357-364: the argument of extendKey.
ExtendKeyArgs(ctx) ==
    [lockAddress |-> ctx.lockAddress,
     keyPrice |-> ctx.keyPrice,
     owner |-> FirstOr(Some(ctx.recipients), None),
     data |-> FirstOr(ctx.purchaseData, "0x"),
     referrer |-> FirstOr(Some(Referrers(ctx.recipients)), None),
     swap |-> SwapOf(ctx.route.src, ctx.route.value, ctx.route.quote)]

\* payment.route, as far as the swap object reads it (lines 340-353)
ContextRoutes ==
    {[src |-> Some(TokenA), value |-> None, quote |-> 99],
     [src |-> None, value |-> Some(7), quote |-> 1000]}

Contexts ==
    {[lockAddress |-> LockMixed, keyPrice |-> 25, method |-> "crypto",
      recipients |-> Fill(n, Recipient), prices |-> pr, purchaseData |-> d,
      keyManagers |-> km, recurringPayment |-> rp, renew |-> rn, route |-> rt] :
        rn \in BOOLEAN,
        rt \in ContextRoutes,
        n \in 1..MaxRecipients,
        pr \in ArraysUpTo(MaxRecipients, 25),
        d \in {None} \cup {Some(a) : a \in ArraysUpTo(MaxRecipients, "0x")},
        km \in {None} \cup {Some(a) : a \in ArraysUpTo(MaxRecipients, Signer)},
        rp \in RecurringInputs}

NoRequest == [events |-> <<>>, request |-> None, extend |-> None]

InitRequest ==
    /\ pkIn \in Contexts
    /\ pc = "idle"
    /\ loc = None
    /\ txOpts = NoOpts
    /\ hist = NoRequest
    /\ receipt = NoReceipt
    /\ result = Pending
    /\ UiAbsent

RequestStep(npc, nhist) ==
    /\ pc' = npc
    /\ hist' = nhist
    /\ UNCHANGED <<pkIn, loc, txOpts, receipt, result>>
    /\ UNCHANGED uiVars

\* lines 314-355: onConfirmCrypto runs up to the await of getWalletService.
RQ_Confirm ==
    /\ pc = "idle"
    /\ RequestStep("getWalletService", Ev(hist, "getWalletService"))

\* lines 355-380: getWalletService settles; extendKey or purchaseKeys is
\* called.
RQ_WalletCall ==
    /\ pc = "getWalletService"
    /\ \E ok \in BOOLEAN :
        IF ~ok THEN RequestStep("failed", hist)
        ELSE IF WalletCall([component |-> "swap", renew |-> pkIn.renew]) = "extendKey"
        THEN RequestStep("wallet",
                [Ev(hist, "extendKey") EXCEPT !.extend = Some(ExtendKeyArgs(pkIn))])
        ELSE RequestStep("wallet",
                [Ev(hist, "purchaseKeys") EXCEPT !.request = Some(PurchaseKeysArgs(pkIn))])

NextRequest ==
    \/ RQ_Confirm
    \/ RQ_WalletCall

SpecRequest == InitRequest /\ [][NextRequest]_vars

(***************************************************************************)
(* The lock (MixinPurchase, lines 693-877).  loc is the storage of the     *)
(* lock and the block time.  A call of purchase runs in stages, one frame  *)
(* per call in hist.frames; the contracts purchase calls out to (the       *)
(* Unlock protocol, the token, the hook, the sender) answer at their       *)
(* stage and can call the lock before they answer.  receipt is the         *)
(* receipt of the transaction once it has ended, result what the client's  *)
(* purchase function makes of that receipt.                                *)
(***************************************************************************)
\* type(uint).max, on a narrow word
MaxUint == 65535
\* BASIS_POINTS_DEN
BasisPointsDen == 10000
\* Checked arithmetic of Solidity 0.8: a sum or product that overflows panics.
Overflows(a, b) == a + b > MaxUint
MulOverflows(a, b) == a * b > MaxUint

Holders == {Recipient, Signer}
Manager == SwapPurchaser
NoKey == [tokenId |-> 0, expirationTimestamp |-> 0]
\* Values of _gasRefundBasisPoints: the default, and 50%.
BasisPoints == {0, 5000}
\* A payment below the key price, the key price, and a payment so large that
\* its product with the basis points overflows the word.
KeyPrice == 2
Payments == {1, KeyPrice, 14}

\* The lock with no key sold: priced in the native currency or in a token,
\* keys that last one unit of time, almost the whole word, or for ever, with
\* or without a purchase hook, alive or disabled, with room for one key or
\* for more keys than there are recipients, without or with a gas refund.
NewLocks ==
    {[keyPrice |-> KeyPrice, tokenAddress |-> t, expirationDuration |-> d, hook |-> h,
      isAlive |-> alive, maxNumberOfKeys |-> room,
      gasRefundBasisPoints |-> bp,
      keyByOwner |-> [o \in Holders |-> NoKey],
      keyManagerOf |-> [id \in 1..Cardinality(Holders) |-> ZERO],
      totalSupply |-> 0, now |-> 1] :
        t \in {ZERO, TokenA}, d \in {1, MaxUint - 1, MaxUint}, h \in BOOLEAN,
        alive \in BOOLEAN, room \in {1, Cardinality(Holders) + 1},
        bp \in BasisPoints}

\* The arguments of purchase and msg.value.
PurchaseCalls ==
    [value : Payments, recipient : {ZERO, Recipient, Signer},
     keyManager : {ZERO, Manager}, msgValue : {0} \cup Payments]
NoCall == [value |-> 0, recipient |-> ZERO, keyManager |-> ZERO, msgValue |-> 0]
\* The calls made on a lock: _value is not read on a native lock (the key
\* price is passed), no native value is sent to a token lock, one call
\* stands for all those without a recipient, the first key is sold to
\* Recipient (the holders are interchangeable until then), and the large
\* payment is made where a part of it is refunded.
CallsOn(lock) ==
    {c \in PurchaseCalls :
        /\ IF lock.tokenAddress = ZERO
           THEN c.value = lock.keyPrice /\ c.msgValue # 1
           ELSE c.msgValue = 0
        /\ c.recipient = ZERO =>
              c = [NoCall EXCEPT !.value = lock.keyPrice]
        /\ lock.totalSupply = 0 => c.recipient # Signer
        /\ lock.gasRefundBasisPoints = 0 =>
              c.value <= lock.keyPrice /\ c.msgValue <= lock.keyPrice}
\* The calls a called contract makes on the lock while call c waits for its
\* answer: a purchase with the same payment, for any recipient.
ReentrantCalls(lock, c) ==
    {r \in CallsOn(lock) :
        /\ r.recipient # ZERO
        /\ r.value = c.value
        /\ r.msgValue = c.msgValue
        /\ r.keyManager = ZERO}

\* modifier onlyIfAlive (line 743)
OnlyIfAlive(lock) == IF lock.isAlive THEN "none" ELSE "onlyIfAlive"
\* modifier notSoldOut (line 744)
NotSoldOut(lock) ==
    IF lock.maxNumberOfKeys > lock.totalSupply THEN "none" ELSE "notSoldOut"

\* block.timestamp + expirationDuration, or the maximum for a non-expiring
\* lock (lines 760-764 and 787-791)
NewExpirationWithoutNow(lock) ==
    IF lock.expirationDuration = MaxUint THEN MaxUint ELSE lock.expirationDuration
NewExpiration(lock) ==
    IF lock.expirationDuration = MaxUint THEN MaxUint
    ELSE lock.now + lock.expirationDuration
\* The checked sum of lines 763 and 790 overflows.
NewExpirationPanics(lock) ==
    lock.expirationDuration # MaxUint /\ Overflows(lock.now, lock.expirationDuration)

LockLog(name, id, arg) == [address |-> LockLower, event |-> name, tokenId |-> id, arg |-> arg]
\* The token's own Transfer event of a transferFrom.
TokenLog(lock, amount) ==
    [address |-> lock.tokenAddress, event |-> "Transfer", tokenId |-> amount, arg |-> 0]

\* _setKeyManagerOf(idTo, _keyManager)
SetKeyManagerOf(lock, id, keyManager) ==
    [lock EXCEPT !.keyManagerOf[id] = keyManager]

\* _assignNewTokenId(toKey) and _recordOwner: the next token id.
AssignNewTokenId(lock, recipient) ==
    [lock EXCEPT !.totalSupply = @ + 1,
                 !.keyByOwner[recipient].tokenId = lock.totalSupply + 1]

\* lines 749-797: the key of the recipient is created, extended or renewed.
\* Gives the storage, the events and the reason of a revert ("none" if none).
\* lines 753-775: the recipient has no token id.
NewKey(lock, c) ==
    LET l1 == AssignNewTokenId(lock, c.recipient)
        idTo == l1.keyByOwner[c.recipient].tokenId
        l2 == [l1 EXCEPT !.keyByOwner[c.recipient].expirationTimestamp =
                               NewExpiration(lock)]
    IN  IF NewExpirationPanics(lock)
        THEN [lock |-> lock, events |-> <<>>, revert |-> "Panic"]
        ELSE [lock |-> SetKeyManagerOf(l2, idTo, c.keyManager),
              events |-> <<LockLog("Transfer", idTo, 0)>>,
              revert |-> "none"]

\* lines 776-784: the recipient's key is valid; its time is extended.
ExtendValidKeySettingManager(lock, c) ==
    LET toKey == lock.keyByOwner[c.recipient]
        newTimeStamp == toKey.expirationTimestamp + lock.expirationDuration
        l1 == [lock EXCEPT !.keyByOwner[c.recipient].expirationTimestamp = newTimeStamp]
    IN  IF toKey.expirationTimestamp = MaxUint
        THEN [lock |-> lock, events |-> <<>>,
              revert |-> "A valid non-expiring key can not be purchased twice"]
        ELSE IF Overflows(toKey.expirationTimestamp, lock.expirationDuration)
        THEN [lock |-> lock, events |-> <<>>, revert |-> "Panic"]
        ELSE [lock |-> SetKeyManagerOf(l1, toKey.tokenId, c.keyManager),
              events |-> <<LockLog("RenewKeyPurchase", 0, newTimeStamp)>>,
              revert |-> "none"]
ExtendValidKeyTwice(lock, c) ==
    LET toKey == lock.keyByOwner[c.recipient]
        newTimeStamp == toKey.expirationTimestamp + lock.expirationDuration
    IN  IF toKey.expirationTimestamp = MaxUint
        THEN [lock |-> lock, events |-> <<LockLog("RenewKeyPurchase", 0, MaxUint)>>,
              revert |-> "none"]
        ELSE IF Overflows(toKey.expirationTimestamp, lock.expirationDuration)
        THEN [lock |-> lock, events |-> <<>>, revert |-> "Panic"]
        ELSE [lock |-> [lock EXCEPT !.keyByOwner[c.recipient].expirationTimestamp =
                                       newTimeStamp],
              events |-> <<LockLog("RenewKeyPurchase", 0, newTimeStamp)>>,
              revert |-> "none"]
ExtendValidKey(lock, c) ==
    LET toKey == lock.keyByOwner[c.recipient]
        newTimeStamp == toKey.expirationTimestamp + lock.expirationDuration
    IN  IF toKey.expirationTimestamp = MaxUint
        THEN [lock |-> lock, events |-> <<>>,
              revert |-> "A valid non-expiring key can not be purchased twice"]
        ELSE IF Overflows(toKey.expirationTimestamp, lock.expirationDuration)
        THEN [lock |-> lock, events |-> <<>>, revert |-> "Panic"]
        ELSE [lock |-> [lock EXCEPT !.keyByOwner[c.recipient].expirationTimestamp =
                                       newTimeStamp],
              events |-> <<LockLog("RenewKeyPurchase", 0, newTimeStamp)>>,
              revert |-> "none"]

\* lines 785-797: the recipient's key has expired.
RenewExpiredKeyWithTransfer(lock, c) ==
    LET toKey == lock.keyByOwner[c.recipient]
        l1 == [lock EXCEPT !.keyByOwner[c.recipient].expirationTimestamp =
                               NewExpiration(lock)]
    IN  IF NewExpirationPanics(lock)
        THEN [lock |-> lock, events |-> <<>>, revert |-> "Panic"]
        ELSE [lock |-> SetKeyManagerOf(l1, toKey.tokenId, c.keyManager),
              events |-> <<LockLog("Transfer", toKey.tokenId, 0),
                           LockLog("RenewKeyPurchase", 0, NewExpiration(lock))>>,
              revert |-> "none"]
RenewExpiredKey(lock, c) ==
    LET toKey == lock.keyByOwner[c.recipient]
        l1 == [lock EXCEPT !.keyByOwner[c.recipient].expirationTimestamp =
                               NewExpiration(lock)]
    IN  IF NewExpirationPanics(lock)
        THEN [lock |-> lock, events |-> <<>>, revert |-> "Panic"]
        ELSE [lock |-> SetKeyManagerOf(l1, toKey.tokenId, c.keyManager),
              events |-> <<LockLog("RenewKeyPurchase", 0, NewExpiration(lock))>>,
              revert |-> "none"]

AssignKey(lock, c) ==
    LET toKey == lock.keyByOwner[c.recipient]
    IN  IF toKey.tokenId = 0
        THEN NewKey(lock, c)
        ELSE IF toKey.expirationTimestamp > lock.now
        THEN ExtendValidKey(lock, c)
        ELSE RenewExpiredKey(lock, c)

\* The locks at the start: new, or alive with a first key sold to Recipient
\* at time 1, without a key manager.
Locks ==
    NewLocks \cup
    {NewKey(lock, [NoCall EXCEPT !.recipient = Recipient]).lock :
        lock \in {l \in NewLocks : l.isAlive}}

\* onKeyPurchaseHook.keyPurchasePrice(...): the hook gives a discount.
HookPrice == 1
\* _purchasePriceFor (lines 860-876), when the hook answers
PurchasePriceFor(lock) == IF lock.hook THEN HookPrice ELSE lock.keyPrice
\* line 869: the view call to the hook answers or reverts.
KeyPurchasePrice(lock, priceOk) ==
    IF lock.hook /\ ~priceOk THEN "keyPurchasePrice" ELSE "none"

\* lines 802-807: try unlockProtocol.recordKeyPurchase, catch: the event.
RecordKeyPurchaseUncaught(unlockOk) ==
    [events |-> <<>>, revert |-> IF unlockOk THEN "none" ELSE "recordKeyPurchase"]
RecordKeyPurchase(unlockOk) ==
    [events |-> IF unlockOk THEN <<>> ELSE <<LockLog("UnlockCallFailed", 0, 0)>>,
     revert |-> "none"]

\* lines 810-820: pricePaid
PricePaid(lock, c) == IF lock.tokenAddress # ZERO THEN c.value ELSE c.msgValue

\* The answers of token.transferFrom: it transfers and returns true, it
\* returns false without transferring, or it reverts.
TokenAnswers == {"ok", "false", "revert"}

\* line 815: token.transferFrom(msg.sender, address(this), pricePaid); its
\* returned boolean is not read.  On a native lock the value came with the
\* call (line 819).  Gives what the lock receives, the token's log and
\* the reason of a revert.
TokenTransfer(lock, c, answer) ==
    IF lock.tokenAddress = ZERO
    THEN [received |-> c.msgValue, events |-> <<>>, revert |-> "none"]
    ELSE CASE answer = "ok" ->
                [received |-> c.value, events |-> <<TokenLog(lock, c.value)>>,
                 revert |-> "none"]
           [] answer = "false" ->
                [received |-> 0, events |-> <<>>, revert |-> "none"]
           [] OTHER ->
                [received |-> 0, events |-> <<>>, revert |-> "transferFrom"]

\* line 821
InsufficientValueIgnored(pricePaid, price) == "none"
InsufficientValue(pricePaid, price) ==
    IF pricePaid >= price THEN "none" ELSE "INSUFFICIENT_VALUE"

\* lines 823-826: onKeyPurchaseHook.onKeyPurchase answers or reverts.
OnKeyPurchase(lock, hookOk) == IF lock.hook /\ ~hookOk THEN "onKeyPurchase" ELSE "none"

\* line 830: toRefund, a checked product
ToRefund(lock, c) == (lock.gasRefundBasisPoints * PricePaid(lock, c)) \div BasisPointsDen
\* lines 829-830 panic: there is a refund and its product overflows.
RefundPanics(lock, c) ==
    /\ lock.gasRefundBasisPoints # 0
    /\ MulOverflows(lock.gasRefundBasisPoints, PricePaid(lock, c))

\* lines 831-838: the gas refund to the sender, by a second transferFrom of
\* the token (its returned boolean is not read either) or by a call that
\* sends the native value (answer "ok") or fails (any other answer).
GasRefund(lock, toRefund, answer) ==
        IF lock.tokenAddress # ZERO
        THEN CASE answer = "ok" ->
                    [refunded |-> toRefund,
                     events |-> <<TokenLog(lock, toRefund),
                                  LockLog("GasRefunded", 0, toRefund)>>,
                     revert |-> "none"]
               [] answer = "false" ->
                    [refunded |-> 0,
                     events |-> <<LockLog("GasRefunded", 0, toRefund)>>,
                     revert |-> "none"]
               [] OTHER ->
                    [refunded |-> 0, events |-> <<>>, revert |-> "refund transferFrom"]
        ELSE IF answer = "ok"
        THEN [refunded |-> toRefund,
              events |-> <<LockLog("GasRefunded", 0, toRefund)>>,
              revert |-> "none"]
        ELSE [refunded |-> 0, events |-> <<>>, revert |-> "Refund failed."]

\* The first revert among the steps, in program order.
FirstRevert(reasons) ==
    LET at == {i \in DOMAIN reasons : reasons[i] # "none"}
    IN  IF at = {} THEN "none"
        ELSE reasons[CHOOSE i \in at : \A j \in at : i <= j]

\* lines 743-800, run without a call that can change the lock: the
\* modifiers, the recipient, the key and the price.
Enter(lock, c, priceOk) ==
    LET key == IF c.recipient = ZERO
               THEN [lock |-> lock, events |-> <<>>, revert |-> "INVALID_ADDRESS"]
               ELSE AssignKey(lock, c)
    IN  [lock |-> key.lock,
         events |-> key.events,
         revert |-> FirstRevert(<<OnlyIfAlive(lock), NotSoldOut(lock), key.revert,
                                  KeyPurchasePrice(lock, priceOk)>>)]

\* lines 829-830, read when the payment is taken and the hook, if any, has
\* answered: the call is done, or it computes the refund and sends it.
RefundStage(lock, frame) ==
    IF lock.gasRefundBasisPoints = 0
    THEN [frame EXCEPT !.at = "done"]
    ELSE [frame EXCEPT !.at = "refund", !.toRefund = ToRefund(lock, frame.call)]

\* A call of purchase that has started: its arguments, the stage it is at,
\* the storage when it started, whether its call to the Unlock protocol
\* failed, and what it has emitted, received and refunded, and the calls of
\* purchase made within it, so far, and the refund it has computed.
NewFrame(lock, c) ==
    [call |-> c, at |-> "enter", saved |-> lock, unlockFailed |-> FALSE,
     events |-> <<>>, received |-> 0, refunded |-> 0, nested |-> 0,
     toRefund |-> 0]

NoLockHist == [calls |-> 0, sets |-> 0, frames |-> <<>>, reason |-> "none",
               received |-> 0, refunded |-> 0, nested |-> 0]

InitLock ==
    /\ loc \in Locks
    /\ pkIn = NoCall
    /\ pc = "lock"
    /\ txOpts = NoOpts
    /\ hist = NoLockHist
    /\ receipt = NoReceipt
    /\ result = Pending
    /\ UiAbsent

\* The calls made on the lock and the blocks mined so far (the time
\* starts at 1).
LockSteps == hist.calls + hist.sets + loc.now - 1

\* The call that is running, and the frames of its callers.
Top == hist.frames[Len(hist.frames)]
Callers == SubSeq(hist.frames, 1, Len(hist.frames) - 1)

\* A reverted call leaves the storage as it was when it started and emits
\* nothing; the transaction ends when the call is the first one.
\* hist.reason is the reason of the call that ended last.
Revert(frame, reason) ==
    /\ loc' = frame.saved
    /\ IF Callers = <<>>
       THEN /\ hist' = [hist EXCEPT !.frames = <<>>, !.reason = reason,
                                    !.received = 0, !.refunded = 0, !.nested = 0]
            /\ receipt' = [status |-> 0, logs |-> <<>>]
            /\ result' = ReceiptOutcome([status |-> 0, logs |-> <<>>], LockMixed)
       ELSE /\ hist' = [hist EXCEPT !.frames = Callers, !.reason = reason]
            /\ UNCHANGED <<receipt, result>>
    /\ UNCHANGED <<pkIn, pc, txOpts>>
    /\ UNCHANGED uiVars

\* The call returns: its events and funds are those of the transaction when
\* it is the first call, and are added to those of its caller otherwise.
Return(lock, frame) ==
    /\ loc' = lock
    /\ IF Callers = <<>>
       THEN /\ hist' = [hist EXCEPT !.frames = <<>>, !.reason = "none",
                                    !.received = frame.received,
                                    !.refunded = frame.refunded,
                                    !.nested = frame.nested]
            /\ receipt' = [status |-> 1, logs |-> frame.events]
            /\ result' = ReceiptOutcome([status |-> 1, logs |-> frame.events], LockMixed)
       ELSE LET caller == Callers[Len(Callers)]
            IN  /\ hist' = [hist EXCEPT !.reason = "none", !.frames =
                              [Callers EXCEPT ![Len(Callers)] =
                                 [caller EXCEPT !.events = @ \o frame.events,
                                                !.received = @ + frame.received,
                                                !.refunded = @ + frame.refunded,
                                                !.nested = @ + frame.nested + 1]]]
                /\ UNCHANGED <<receipt, result>>
    /\ UNCHANGED <<pkIn, pc, txOpts>>
    /\ UNCHANGED uiVars

\* The call goes on to its next stage, or returns after the last one.
Continue(lock, frame) ==
    IF frame.at = "done"
    THEN Return(lock, frame)
    ELSE /\ loc' = lock
         /\ hist' = [hist EXCEPT !.frames[Len(hist.frames)] = frame]
         /\ UNCHANGED <<pkIn, pc, txOpts, receipt, result>>
         /\ UNCHANGED uiVars

\* A transaction calls purchase (line 736).
LK_Call ==
    /\ hist.frames = <<>>
    /\ LockSteps < MaxLockSteps
    /\ \E c \in CallsOn(loc) :
        /\ hist' = [NoLockHist EXCEPT !.calls = hist.calls + 1,
                                      !.sets = hist.sets,
                                      !.frames = <<NewFrame(loc, c)>>]
        /\ receipt' = NoReceipt
        /\ result' = Pending
        /\ UNCHANGED <<loc, pkIn, pc, txOpts>>
        /\ UNCHANGED uiVars

\* lines 743-800: the call passes the modifiers, writes the key and reads
\* the price, or reverts.
LK_Enter ==
    /\ hist.frames # <<>>
    /\ Top.at = "enter"
    /\ \E priceOk \in BOOLEAN :
        LET in == Enter(loc, Top.call, priceOk)
        IN  /\ (in.revert \notin {"none", "keyPurchasePrice"} => priceOk)
            /\ (~loc.hook => priceOk)
            /\ IF in.revert # "none"
               THEN Revert(Top, in.revert)
               ELSE Continue(in.lock, [Top EXCEPT !.at = "record", !.events = in.events])

\* lines 802-807: unlockProtocol.recordKeyPurchase returns, or it reverts:
\* what was done within that call (calls of the lock by the protocol) is
\* undone, the lock is as the key assignment left it, and the call of
\* purchase goes on with the UnlockCallFailed event.
LK_Record ==
    /\ hist.frames # <<>>
    /\ Top.at = "record"
    /\ \E unlockOk \in BOOLEAN :
        LET record == RecordKeyPurchase(unlockOk)
            key == AssignKey(Top.saved, Top.call)
        IN  IF record.revert # "none"
            THEN Revert(Top, record.revert)
            ELSE IF unlockOk
            THEN Continue(loc, [Top EXCEPT !.at = "pay", !.events = @ \o record.events])
            ELSE Continue(key.lock,
                          [Top EXCEPT !.at = "pay", !.unlockFailed = TRUE,
                                      !.events = key.events \o record.events,
                                      !.received = 0, !.refunded = 0, !.nested = 0])

\* lines 810-821: the payment is collected and compared with the price.
\* Without a hook the call goes on to lines 829-830.
LK_Pay ==
    /\ hist.frames # <<>>
    /\ Top.at = "pay"
    /\ \E answer \in TokenAnswers :
        LET pay == TokenTransfer(loc, Top.call, answer)
            reason == FirstRevert(<<pay.revert,
                                    InsufficientValue(PricePaid(loc, Top.call),
                                                      PurchasePriceFor(loc)),
                                    IF ~loc.hook /\ RefundPanics(loc, Top.call)
                                    THEN "Panic" ELSE "none">>)
            paid == [Top EXCEPT !.events = @ \o pay.events,
                                !.received = @ + pay.received]
        IN  /\ (loc.tokenAddress = ZERO => answer = "ok")
            /\ IF reason # "none"
               THEN Revert(Top, reason)
               ELSE IF loc.hook
               THEN Continue(loc, [paid EXCEPT !.at = "hook"])
               ELSE Continue(loc, RefundStage(loc, paid))

\* lines 823-830: the hook is told of the purchase, and the call goes on
\* to the refund.
LK_Hook ==
    /\ hist.frames # <<>>
    /\ Top.at = "hook"
    /\ \E hookOk \in BOOLEAN :
        LET reason == FirstRevert(<<OnKeyPurchase(loc, hookOk),
                                    IF RefundPanics(loc, Top.call)
                                    THEN "Panic" ELSE "none">>)
        IN  IF reason # "none"
            THEN Revert(Top, reason)
            ELSE Continue(loc, RefundStage(loc, Top))

\* lines 831-839: part of the price paid is sent back to the sender.
LK_Refund ==
    /\ hist.frames # <<>>
    /\ Top.at = "refund"
    /\ \E answer \in TokenAnswers :
        LET refund == GasRefund(loc, Top.toRefund, answer)
        IN  /\ (loc.tokenAddress = ZERO => answer # "false")
            /\ IF refund.revert # "none"
               THEN Revert(Top, refund.revert)
               ELSE Continue(loc, [Top EXCEPT !.at = "done",
                                              !.events = @ \o refund.events,
                                              !.refunded = @ + refund.refunded])

\* The running call is inside a call to another contract, which can call
\* the lock: unlockProtocol.recordKeyPurchase (line 802),
\* token.transferFrom (lines 815 and 833), the hook's onKeyPurchase
\* (line 825), the sender's receive function (line 835).
CallsOut(lock, frame) ==
    \/ frame.at = "record"
    \/ frame.at = "pay" /\ lock.tokenAddress # ZERO
    \/ frame.at = "hook"
    \/ frame.at = "refund"

\* The contract that is called calls purchase before it answers.
LK_Reenter ==
    /\ hist.frames # <<>>
    /\ CallsOut(loc, Top)
    /\ LockSteps < MaxLockSteps
    /\ \E c \in ReentrantCalls(loc, Top.call) :
        /\ hist' = [hist EXCEPT !.calls = @ + 1,
                                !.frames = Append(@, NewFrame(loc, c))]
        /\ UNCHANGED <<loc, pkIn, pc, txOpts, receipt, result>>
        /\ UNCHANGED uiVars

\* setGasRefundBasisPoints (lines 712-714), called by a lock manager in a
\* transaction of its own, or by a contract that purchase has called and
\* that is a lock manager, before it answers.
LK_SetGasRefundBasisPoints ==
    /\ hist.frames # <<>> => CallsOut(loc, Top)
    /\ LockSteps < MaxLockSteps
    /\ \E basisPoints \in BasisPoints :
        /\ basisPoints # loc.gasRefundBasisPoints
        /\ loc' = [loc EXCEPT !.gasRefundBasisPoints = basisPoints]
        /\ IF hist.frames = <<>>
           THEN /\ hist' = [NoLockHist EXCEPT !.calls = hist.calls,
                                              !.sets = hist.sets + 1]
                /\ receipt' = NoReceipt
                /\ result' = Pending
           ELSE /\ hist' = [hist EXCEPT !.sets = @ + 1]
                /\ UNCHANGED <<receipt, result>>
        /\ UNCHANGED <<pkIn, pc, txOpts>>
        /\ UNCHANGED uiVars

\* A block is mined: the block time grows.
LK_Tick ==
    /\ hist.frames = <<>>
    /\ LockSteps < MaxLockSteps
    /\ loc' = [loc EXCEPT !.now = @ + 1]
    /\ hist' = [NoLockHist EXCEPT !.calls = hist.calls, !.sets = hist.sets]
    /\ receipt' = NoReceipt
    /\ result' = Pending
    /\ UNCHANGED <<pkIn, pc, txOpts>>
    /\ UNCHANGED uiVars

NextLock ==
    \/ LK_Call
    \/ LK_Enter
    \/ LK_Record
    \/ LK_Pay
    \/ LK_Hook
    \/ LK_Refund
    \/ LK_Reenter
    \/ LK_SetGasRefundBasisPoints
    \/ LK_Tick

SpecLock == InitLock /\ [][NextLock]_vars

(***************************************************************************)
(* Claims.                                                                 *)
(***************************************************************************)
\* The wallet call of attempt a has been started and has not settled.
Outstanding(a) == attempts[a].pc \in {"wallet", "mining"}

\* C1: in one checkout session at most one wallet call (sendTransaction,
\* purchaseKeys or extendKey) is outstanding at a time, also when clicks
\* arrive while the metadata update of an earlier click is awaited.
C1_AtMostOneWalletCall ==
    Cardinality({a \in 1..MaxClicks : Outstanding(a)}) <= 1

\* Position of the first occurrence of event e in the history, 0 if none.
FirstAt(e) ==
    LET at == {i \in DOMAIN hist.events : hist.events[i] = e}
    IN  IF at = {} THEN 0 ELSE CHOOSE i \in at : \A j \in at : i <= j
Happened(e) == FirstAt(e) > 0
Before(e, f) == Happened(e) /\ FirstAt(e) < FirstAt(f)
ApprovalNeeded == Happened("approve:call")

\* C2 as stated: in a run that needs an approval, the approval has
\* completed before the spending call is built (its call data encoded, the
\* call made) or submitted.
C2_ApprovalBeforeBuiltOrSubmitted ==
    ApprovalNeeded =>
        /\ (loc.callData # None => Before("approve:done", "encode"))
        /\ (Happened("build") => Before("approve:done", "build"))
        /\ (Happened("broadcast") => Before("approve:done", "broadcast"))

\* C2 amended: in a run that needs an approval, the approval has completed
\* before the spending call is estimated, made or submitted, and nothing of
\* these happens while the approval is pending; the purchase call data
\* alone is encoded before the approval is requested.
C2_ApprovalBeforeSpending ==
    ApprovalNeeded =>
        /\ Before("encode", "approve:call")
        /\ (hist.estimate # None => Before("approve:done", "estimateGas")
                                    \/ Before("approve:done", "estimateGas:failed"))
        /\ (hist.built # None => Before("approve:done", "build"))
        /\ (hist.sent # <<>> => Before("approve:done", "broadcast"))
        /\ (pc = "approve" =>
                hist.estimate = None /\ hist.built = None /\ hist.sent = <<>>)

C2_Witness ==
    /\ ApprovalNeeded
    /\ hist.approvalTxs = 1
    /\ hist.sent # <<>>
    /\ hist.sent[1].method = "swapAndCall"

\* C3: when the approval fails, the attempt ends with that failure and no
\* gas estimate, purchase call or swapAndCall is attempted.
C3_ApprovalFailureIsFatal ==
    Happened("approve:failed") =>
        /\ pc = "threw"
        /\ result.kind = "threw"
        /\ result.error = "approval"
        /\ ~Happened("feeData") /\ ~Happened("feeData:failed")
        /\ hist.estimate = None
        /\ hist.built = None
        /\ hist.sent = <<>>

C3_Witness ==
    /\ Happened("approve:failed")
    /\ hist.approvalTxs = 1
    /\ pc = "threw"

\* Options that carry no gas limit and no fee parameter.
NoGasOverrides(opts) ==
    /\ opts.gasLimit = None
    /\ opts.gasPrice = None
    /\ opts.maxFeePerGas = None
    /\ opts.maxPriorityFeePerGas = None
NoFeeOverrides(opts) ==
    /\ opts.gasPrice = None
    /\ opts.maxFeePerGas = None
    /\ opts.maxPriorityFeePerGas = None

GasFailed == Happened("feeData:failed") \/ Happened("estimateGas:failed")

\* C4: when the caller supplies no gas limit and the fee-data fetch or the
\* gas estimate fails, the function does not raise: it goes on to make the
\* spending call, with options that hold no gasLimit, gasPrice,
\* maxFeePerGas or maxPriorityFeePerGas.
C4_GasFailureDegrades ==
    (pkIn.opts.gasLimit = None /\ GasFailed) =>
        /\ pc \in {"build", "handleMethodCall", "callback", "waitForTransaction",
                    "returned", "threw"}
        /\ NoGasOverrides(txOpts)
        /\ (pc # "build" => hist.built # None /\ NoGasOverrides(hist.built[1].opts))
        /\ \A i \in DOMAIN hist.sent : NoGasOverrides(hist.sent[i].opts)
        /\ (pc = "threw" => Happened("broadcast:failed")
                                \/ Happened("receipt") \/ Happened("receipt:failed"))

C4_Witness ==
    /\ pkIn.opts.gasLimit = None
    /\ pkIn.opts.gasPrice # None
    /\ Happened("estimateGas:failed")
    /\ Len(hist.sent) = 1
    /\ NoGasOverrides(hist.sent[1].opts)

\* n is the floor of num / den
IsFloor(n, num, den) == den * n <= num /\ num < den * (n + 1)

\* C5: when the gas estimate succeeds with g, the gas limit of the submitted
\* transaction is floor(g * 13 / 10) and its options carry no gasPrice,
\* maxFeePerGas or maxPriorityFeePerGas.
C5_GasLimitIs130Percent ==
    hist.gas # None =>
        /\ txOpts.gasLimit # None
        /\ IsFloor(txOpts.gasLimit[1], 13 * hist.gas[1], 10)
        /\ NoFeeOverrides(txOpts)
        /\ (hist.built # None => /\ hist.built[1].opts.gasLimit = txOpts.gasLimit
                                  /\ NoFeeOverrides(hist.built[1].opts))
        /\ \A i \in DOMAIN hist.sent :
                /\ hist.sent[i].opts.gasLimit = txOpts.gasLimit
                /\ NoFeeOverrides(hist.sent[i].opts)

C5_Witness ==
    /\ hist.gas = Some(2 * GasStep)
    /\ pkIn.opts.gasPrice # None
    /\ Len(hist.sent) = 1
    /\ hist.sent[1].opts.gasLimit # None
    /\ hist.sent[1].opts.gasLimit[1] > hist.gas[1]

\* C6: with a swap route quoted at q base units, amountInMax is
\* floor(q * 101 / 100) (1010 for q = 1000); that value is the amount to
\* approve and the maxInputAmount argument of swapAndCall.
C6_AmountInMax ==
    pkIn.swap # None =>
        LET q == pkIn.quote[1]
            m == pkIn.swap[1].amountInMax
        IN  /\ IsFloor(m, q * 101, 100)
            /\ (q = 1000 => m = 1010)
            /\ (pc \notin {"getLockContract", "getAddress", "tokenAddress", "amount",
                             "prepare", "threw"} /\ IsErc20(pkIn.swap[1].srcTokenAddress)
                    => /\ hist.approval # None
                       /\ hist.approval[1].totalAmountToApprove = Wei(m))
            /\ (hist.approval # None =>
                    hist.approval[1].totalAmountToApprove = Wei(m))
            /\ (hist.estimate # None => hist.estimate[1].amountInMax = Some(m))
            /\ (hist.built # None => hist.built[1].amountInMax = Some(m))
            /\ \A i \in DOMAIN hist.sent :
                    /\ hist.sent[i].method = "swapAndCall"
                    /\ hist.sent[i].amountInMax = Some(m)

C6_Witness ==
    /\ pkIn.quote = Some(1000)
    /\ hist.approval # None
    /\ hist.approval[1].totalAmountToApprove = Wei(1010)
    /\ Len(hist.sent) = 1
    /\ hist.sent[1].amountInMax = Some(1010)

\* The receipt has been mined and read.
Mined == Happened("receipt")
\* Transfer logs of the lock: same address whatever the case of its letters.
LockTransfers ==
    {i \in DOMAIN receipt.logs :
        /\ receipt.logs[i].address[1] = pkIn.lockAddress[1]
        /\ receipt.logs[i].event = "Transfer"}

\* C7: with a receipt of status 0 the function fails with the
\* transaction-failed error and returns neither a token id nor null,
\* whatever the logs.
C7_Status0Fails ==
    (Mined /\ receipt.status = 0) =>
        /\ pc = "threw"
        /\ result.kind = "threw"
        /\ result.error = "Transaction failed"

C7_Witness ==
    /\ Mined
    /\ receipt.status = 0
    /\ LockTransfers # {}
    /\ result.kind = "threw"

\* C8: the token id returned is that of the first Transfer log emitted by
\* the lock address, compared without regard to case; Transfer logs of
\* other addresses are never used, so without a Transfer log of the lock
\* the function returns null.
C8_TokenIdFromLockTransfer ==
    (Mined /\ result.kind = "returned") =>
        IF LockTransfers = {}
        THEN result.value = None
        ELSE LET first == CHOOSE i \in LockTransfers : \A j \in LockTransfers : i <= j
             IN  result.value = Some(receipt.logs[first].tokenId)

C8_Witness ==
    /\ Mined
    /\ result.kind = "returned"
    /\ result.value = None
    /\ Len(receipt.logs) = MaxLogs
    /\ \A i \in DOMAIN receipt.logs :
            receipt.logs[i].event = "Transfer" /\ receipt.logs[i].address = TokenA

\* What the component has told the state machine and the user about
\* attempt a: calls of onConfirmed, an error toast, CONFIRM_MINT ERROR events.
Report(a) ==
    [confirmed |-> attempts[a].confirmed, toast |-> attempts[a].toast # None,
     errEvents |-> attempts[a].errEvents]
\* The report of a purchase that was confirmed.
ConfirmedReport == [confirmed |-> 1, toast |-> FALSE, errEvents |-> 0]

\* The receipt of attempt a has status s and holds (or not) a Transfer log
\* of the lock.
HasLockTransfer(rcpt) ==
    \E i \in DOMAIN rcpt.logs :
        /\ rcpt.logs[i].address[1] = pkIn.lockAddress[1]
        /\ rcpt.logs[i].event = "Transfer"
Ambiguous(a) ==
    /\ attempts[a].receipt # None
    /\ attempts[a].receipt[1].status = 1
    /\ ~HasLockTransfer(attempts[a].receipt[1])
Issued(a) ==
    /\ attempts[a].receipt # None
    /\ attempts[a].receipt[1].status = 1
    /\ HasLockTransfer(attempts[a].receipt[1])
Reverted(a) ==
    /\ attempts[a].receipt # None
    /\ attempts[a].receipt[1].status = 0

\* C9 as stated: a successful receipt without a Transfer event of the lock
\* gives null without raising, and this outcome is reported as a distinct
\* "unconfirmed" outcome: not as a failure, and not as a confirmed purchase.
C9_NullReportedAsUnconfirmed ==
    \A a \in 1..MaxClicks :
        Ambiguous(a) =>
            /\ attempts[a].result.kind = "returned"
            /\ attempts[a].result.value = None
            /\ ~Report(a).toast
            /\ Report(a) # ConfirmedReport

\* C9 amended: a successful receipt without a Transfer event of the lock
\* gives null without raising; the confirm step shows no error for it,
\* unlike for a reverted transaction, but discards the returned value and
\* reports the attempt exactly as a purchase that returned a token id.
C9_NullReportedAsConfirmed ==
    \A a \in 1..MaxClicks :
        /\ Ambiguous(a) =>
                /\ attempts[a].pc = "done"
                /\ attempts[a].result.kind = "returned"
                /\ attempts[a].result.value = None
                /\ Report(a) = ConfirmedReport
        /\ Issued(a) =>
                /\ attempts[a].result.value # None
                /\ Report(a) = ConfirmedReport
        /\ Reverted(a) =>
                /\ attempts[a].pc = "failed"
                /\ attempts[a].result.error = "Transaction failed"
                /\ Report(a).toast

C9_Witness ==
    \E a \in 1..MaxClicks :
        /\ Ambiguous(a)
        /\ Len(attempts[a].receipt[1].logs) = 1
        /\ attempts[a].receipt[1].logs[1].event = "Transfer"
        /\ attempts[a].pc = "done"
        /\ machine = "MINTING"

\* C10: whenever a confirm attempt fails (getWalletService, sendTransaction,
\* purchaseKeys or extendKey rejecting), the in-flight flag is false after
\* the failure, so that the button accepts a new confirm request.
C10_FailureResetsFlag ==
    [][\A a \in 1..MaxClicks :
          (attempts[a].pc # "failed" /\ attempts'[a].pc = "failed") =>
              /\ ~isConfirming'
              /\ (pricing' = "ready" => ~ButtonDisabled(isConfirming', pricing'))]_vars

C10_Witness ==
    /\ ~uiCfg.metadata
    /\ attempts[1].pc = "failed"
    /\ attempts[2].pc = "wallet"
    /\ isConfirming

\* C11: every confirm attempt whose wallet call completes successfully has
\* reported confirmation (onConfirmed) to the state machine exactly once, for
\* the cross-chain purchase, the swap purchase and the swap renewal alike.
\* An attempt that is done takes no further step, so a report that has not
\* been made by then is never made.
C11_SuccessReportedOnce ==
    \A a \in 1..MaxClicks :
        attempts[a].pc = "done" => attempts[a].confirmed = 1

\* C12: every fatal failure of a confirm attempt has been surfaced to the
\* state machine as an ERROR transition (CONFIRM_MINT with status ERROR).
C12_FailureSurfacedAsError ==
    \A a \in 1..MaxClicks :
        attempts[a].pc = "failed" => attempts[a].errEvents >= 1

\* The purchase function has ended, or awaits the receipt.
Broadcast == Happened("broadcast")
\* A step before the submission has failed.
FailedBeforeBroadcast == pc = "threw" /\ ~Broadcast

\* C13: one invocation of the purchase function broadcasts exactly one
\* spending transaction (a purchase without a swap, a swapAndCall with a
\* swap, never both, never twice) once the steps before it have succeeded,
\* and none when one of them has failed; the hash callback, when given, is
\* called exactly once per broadcast: not yet while the function is
\* suspended at the await of line 653, once from then on, and never
\* without a broadcast or without a callback given.
C13_OneSpendingTransaction ==
    /\ Len(hist.sent) <= 1
    /\ Len(hist.sent) = 1 <=> Broadcast
    /\ pc \in {"waitForTransaction", "returned"} => Len(hist.sent) = 1
    /\ FailedBeforeBroadcast => hist.sent = <<>> /\ hist.callbacks = 0
    /\ \A i \in DOMAIN hist.sent :
            hist.sent[i].method = IF pkIn.swap # None THEN "swapAndCall" ELSE "purchase"
    /\ pc = "callback" => pkIn.callback /\ Len(hist.sent) = 1 /\ hist.callbacks = 0
    /\ pc # "callback" => hist.callbacks = IF pkIn.callback THEN Len(hist.sent) ELSE 0

C13_Witness ==
    /\ pc = "returned"
    /\ pkIn.swap # None
    /\ pkIn.callback
    /\ Len(hist.sent) = 1
    /\ hist.sent[1].method = "swapAndCall"
    /\ hist.callbacks = 1
    /\ Happened("callback")
    /\ Happened("estimateGas:failed")

\* The token the purchase spends: the swap's source token with a swap, the
\* lock's token without.
SpentToken == IF pkIn.swap # None THEN pkIn.swap[1].srcTokenAddress ELSE loc.erc20Address
NativeSentinel(t) == t = None \/ t[1] = ZERO
\* The purchase function has passed the point where approveAllowance is
\* called or skipped.
PastApprovalDecision == Happened("encode")

\* C14: when the token to be spent is the native-currency sentinel (the zero
\* address, or absent), the purchase function does not call the allowance
\* step at all: no allowance is read and no approval transaction is sent.
C14_NativeNeedsNoApproval ==
    (PastApprovalDecision /\ NativeSentinel(SpentToken)) =>
        /\ ~Happened("approve:call")
        /\ ~Happened("approve:done")
        /\ ~Happened("approve:failed")
        /\ hist.approval = None
        /\ hist.approvalTxs = 0

C14_Witness ==
    /\ pc = "returned"
    /\ pkIn.swap # None
    /\ pkIn.swap[1].srcTokenAddress = None
    /\ loc.erc20Address = Some(TokenA)
    /\ Len(hist.sent) = 1
    /\ hist.approvalTxs = 0

\* C15: for every call of the allowance step, an allowance that already
\* meets the requirement gives no approval transaction and a call that
\* returns (the spending call proceeds); any call submits at most one
\* approval transaction; and a call repeated after a call that returned,
\* for the same token and no larger an amount, submits none.
C15_AllowanceIdempotent ==
    /\ hist.txs <= 1
    /\ pc = "approving" => ~Covers(hist.allowance, pkIn.totalAmountToApprove)
    /\ \A i \in DOMAIN hist.calls :
        LET c == hist.calls[i]
        IN  /\ c.txs <= 1
            /\ Covers(c.before, c.required) => c.txs = 0
            /\ (c.token # ZERO /\ ~Covers(c.before, c.required) /\ c.outcome = "returned")
                    => c.txs = 1
            /\ (i > 1 /\ hist.calls[i - 1].token = c.token
                      /\ hist.calls[i - 1].outcome = "returned"
                      /\ hist.calls[i - 1].required >= c.required)
                    => c.txs = 0

C15_Witness ==
    /\ Len(hist.calls) >= 2
    /\ hist.calls[1].token = TokenA
    /\ hist.calls[1].before < hist.calls[1].required
    /\ hist.calls[1].txs = 1
    /\ hist.calls[1].outcome = "returned"
    /\ hist.calls[2].token = TokenA
    /\ hist.calls[2].required = hist.calls[1].required
    /\ hist.calls[2].txs = 0
    /\ hist.calls[2].outcome = "returned"

\* The purchase function has resolved the amount.
AmountResolved == loc.actualAmount # None

\* C16: the amount is resolved in this order.  (1) Without a price it is the
\* lock's current price, and no decimals are looked up.  (2) With a price
\* and decimals it is the price converted with those decimals, and neither
\* price nor decimals are looked up.  (3) With a price and no decimals, the
\* decimals are read from the token contract, or are 18 for the native
\* sentinel (then without a lookup), and the price is converted with them.
C16_AmountResolution ==
    AmountResolved =>
        LET amount == loc.actualAmount[1]
        IN  /\ pkIn.keyPrice = None =>
                    /\ Happened("keyPrice")
                    /\ amount \in LockPrices
                    /\ ~Happened("decimals")
                    /\ loc.decimals = pkIn.decimals
            /\ (pkIn.keyPrice # None /\ pkIn.decimals # None) =>
                    /\ amount = ToDecimal(pkIn.keyPrice[1], pkIn.decimals[1])
                    /\ ~Happened("keyPrice")
                    /\ ~Happened("decimals")
            /\ (pkIn.keyPrice # None /\ pkIn.decimals = None) =>
                    /\ ~Happened("keyPrice")
                    /\ loc.decimals # None
                    /\ amount = ToDecimal(pkIn.keyPrice[1], loc.decimals[1])
                    /\ IF loc.erc20Address[1] = ZERO
                       THEN loc.decimals[1] = 18 /\ ~Happened("decimals")
                       ELSE loc.decimals[1] \in TokenDecimals /\ Happened("decimals")

C16_Witness ==
    /\ pc = "returned"
    /\ pkIn.keyPrice = Some(25)
    /\ pkIn.decimals = None
    /\ pkIn.erc20Address = None
    /\ loc.erc20Address = Some(TokenA)
    /\ Happened("decimals")
    /\ loc.actualAmount = Some(<<25, 6>>)

\* The native value a submitted call carries: an unset value is no value.
AttachedValue(call) == IF call.opts.value = None THEN Wei(0) ELSE call.opts.value[1]
\* The native-value field of the swap route, absent meaning none.
RouteValue(swap) == IF swap.value = None THEN Wei(0) ELSE Wei(swap.value[1])

\* C17: whenever a swap route is present, the native value attached to the
\* submitted swapAndCall is the route's native-value field and never the
\* inner purchase amount, whatever the field is (zero and absent included)
\* and whether or not the lock is priced in native currency.
C17_SwapValueFromRoute ==
    \A i \in DOMAIN hist.sent :
        pkIn.swap # None => AttachedValue(hist.sent[i]) = RouteValue(pkIn.swap[1])

\* C18: for a direct purchase (no swap), the submitted transaction carries
\* the resolved amount as its native value if and only if the lock is priced
\* in native currency; for a token-priced lock the purchase function sets no
\* value (the caller's, here none, is left).
C18_DirectValue ==
    \A i \in DOMAIN hist.sent :
        pkIn.swap = None =>
            LET call == hist.sent[i]
            IN  /\ call.method = "purchase"
                /\ call.amount = loc.actualAmount[1]
                /\ IF loc.erc20Address[1] = ZERO
                   THEN call.opts.value = Some(loc.actualAmount[1])
                   ELSE call.opts.value = pkIn.opts.value /\ call.opts.value = None

C18_Witness ==
    /\ pc = "returned"
    /\ pkIn.swap = None
    /\ pkIn.keyPrice = None
    /\ pkIn.erc20Address = None
    /\ loc.erc20Address = Some(ZERO)
    /\ Len(hist.sent) = 1
    /\ hist.sent[1].opts.value = Some(<<5, 18>>)
    /\ hist.approvalTxs = 0

\* A per-recipient array of a request is absent or has n elements.
AbsentOrOfLength(x, n) == x = None \/ Len(x[1]) = n
WellFormed(req) ==
    LET n == Len(req.owners)
    IN  /\ AbsentOrOfLength(req.keyPrices, n)
        /\ AbsentOrOfLength(req.keyManagers, n)
        /\ AbsentOrOfLength(req.referrers, n)
        /\ AbsentOrOfLength(req.data, n)
        /\ AbsentOrOfLength(req.recurringPayments, n)

\* C19: when the wallet call of a purchase request with N recipients is
\* made, every per-recipient array that is present (prices, key managers,
\* referrers, data payloads, recurring-payment counts) has length N; a
\* request with arrays of other lengths makes no network call.
C19_ArraysHaveLengthN ==
    /\ hist.request # None => WellFormed(hist.request[1])
    /\ (hist.events # <<>> /\ ~pkIn.renew) => WellFormed(PurchaseKeysArgs(pkIn))

\* C20 as stated: a run of the purchase function that ends before the
\* spending transaction is submitted has broadcast no transaction of any
\* kind and changed no remote state.
C20_NoSideEffectBeforeSubmission ==
    FailedBeforeBroadcast =>
        /\ hist.sent = <<>>
        /\ hist.approvalTxs = 0

\* C20 amended: a run of the purchase function that ends before the
\* spending transaction is submitted has broadcast no spending transaction
\* and called no hash callback; it has broadcast at most one approval
\* transaction, and none when the token to be spent is the native sentinel,
\* or when it ended before the allowance step.
C20_OnlyApprovalBeforeSubmission ==
    FailedBeforeBroadcast =>
        /\ hist.sent = <<>>
        /\ hist.callbacks = 0
        /\ hist.approvalTxs <= 1
        /\ NativeSentinel(SpentToken) => hist.approvalTxs = 0
        /\ ~Happened("approve:call") => hist.approvalTxs = 0

C20_Witness ==
    /\ pc = "threw"
    /\ result.error = "sendTransaction"
    /\ Happened("approve:done")
    /\ hist.approvalTxs = 1
    /\ hist.sent = <<>>

\* The last thing the purchase function did.
LastEvent == IF hist.events = <<>> THEN "none" ELSE hist.events[Len(hist.events)]
\* The step whose failure rejects with error e.
FailedStep(e) ==
    CASE e = "getLockContract" -> "getLockContract"
      [] e = "getAddress" -> "getAddress"
      [] e = "tokenAddress" -> "tokenAddress"
      [] e = "keyPrice" -> "keyPrice"
      [] e = "decimals" -> "decimals"
      [] e = "approval" -> "approve:failed"
      [] e = "sendTransaction" -> "broadcast:failed"
      [] e = "waitForTransaction" -> "receipt:failed"
      [] e = "Transaction failed" -> "receipt"
      [] OTHER -> "unknown"

\* C21: in the purchase function a failed price, token-address or decimals
\* lookup, a failed approval and a failed submission reject with the error
\* of that step, unmodified, and no later step is executed; a failed
\* fee-data fetch or gas estimate is swallowed, and these are the only
\* failures after which the function goes on.
C21_FailuresPropagate ==
    /\ result.kind = "threw" =>
            /\ pc = "threw"
            /\ LastEvent = FailedStep(result.error)
    /\ Happened("approve:failed") => result.error = "approval"
    /\ Happened("broadcast:failed") => result.error = "sendTransaction"
    /\ result.error \notin {"feeData", "estimateGas"}
    /\ (Happened("feeData:failed") \/ Happened("estimateGas:failed")) =>
            /\ Happened("build") \/ pc = "build"
            /\ result.kind = "threw" => Before("build", FailedStep(result.error))

C21_Witness ==
    /\ pc = "threw"
    /\ result.error = "sendTransaction"
    /\ Happened("estimateGas:failed")
    /\ Happened("decimals")
    /\ hist.sent = <<>>

\* The codes with which a signer declines.
RejectionCodes == {"-32000", "4001", "ACTION_REJECTED"}

\* C22: when the signer declines (code -32000, 4001 or ACTION_REJECTED) the
\* attempt is reported to the user as a rejected transaction; a failed
\* attempt is never taken up again, and an attempt starts only with a new
\* click on the confirm button.
C22_RejectionReportedNotRetried ==
    [][\A a \in 1..MaxClicks :
          /\ (attempts[a].pc = "wallet" /\ attempts'[a].pc = "failed"
                    /\ attempts'[a].result.error \in RejectionCodes) =>
                /\ attempts'[a].toast = Some("Transaction rejected.")
                /\ attempts'[a].confirmed = attempts[a].confirmed
                /\ machine' = machine
                /\ clicks' = clicks
                /\ \A b \in 1..MaxClicks : b # a => attempts'[b] = attempts[b]
          /\ attempts[a].pc = "failed" => attempts'[a] = attempts[a]
          /\ (attempts[a].pc = "none" /\ attempts'[a].pc # "none") =>
                /\ clicks' = clicks + 1
                /\ a = clicks']_vars

C22_Witness ==
    /\ attempts[1].pc = "failed"
    /\ attempts[1].result.error = "4001"
    /\ attempts[1].toast = Some("Transaction rejected.")
    /\ attempts[2].pc = "wallet"
    /\ clicks = 2

\* Attempt a has started: it has gone past the pricing guard, towards the
\* wallet.
Started(a) == attempts[a].pc \in {"getWalletService", "wallet", "mining", "done", "failed"}

\* C23: no purchase attempt is started, and no wallet call is made, unless
\* pricing data is available and free of error; a confirm request made
\* while pricing is absent, loading or in error never reaches the wallet.
C23_NoWalletCallWithoutPricing ==
    \A a \in 1..MaxClicks :
        /\ Started(a) => attempts[a].pricingData /\ pricing = "ready"
        /\ (attempts[a].pc # "none" /\ ~attempts[a].pricingData) =>
                /\ attempts[a].pc \in {"metadata", "aborted", "returned"}
                /\ attempts[a].confirmed = 0

C23_Witness ==
    /\ attempts[1].pc = "returned"
    /\ ~attempts[1].pricingData
    /\ attempts[2].pc = "wallet"
    /\ pricing = "ready"

\* C24: one confirm attempt gives a success outcome or a failure reason,
\* never both: the success notification (onConfirmed) and a failure report
\* (an error toast or an ERROR event) are never both produced for it.
C24_SuccessXorFailure ==
    \A a \in 1..MaxClicks :
        ~(Report(a).confirmed >= 1 /\ (Report(a).toast \/ Report(a).errEvents >= 1))

\* Number of times e occurs in the history.
Times(e) == Cardinality({i \in DOMAIN hist.events : hist.events[i] = e})
\* The swap object built from the route of the context.
ContextSwap == SwapOf(pkIn.route.src, pkIn.route.value, pkIn.route.quote)

\* C26: the confirm step chooses the wallet operation from the renew flag
\* alone and passes the swap route in both cases: with renew set, exactly
\* one extendKey call carrying the swap and no purchaseKeys call; with renew
\* unset, exactly one purchaseKeys call carrying the swap and no extendKey
\* call.
C26_RenewSelectsWalletCall ==
    /\ Times("extendKey") + Times("purchaseKeys") <= 1
    /\ pc = "wallet" =>
          IF pkIn.renew
          THEN /\ Times("extendKey") = 1 /\ Times("purchaseKeys") = 0
               /\ hist.request = None
               /\ hist.extend # None
               /\ hist.extend[1].swap = ContextSwap
               /\ hist.extend[1].owner = pkIn.recipients[1]
          ELSE /\ Times("purchaseKeys") = 1 /\ Times("extendKey") = 0
               /\ hist.extend = None
               /\ hist.request # None
               /\ hist.request[1].swap = ContextSwap
               /\ hist.request[1].owners = pkIn.recipients
    /\ pc # "wallet" => hist.request = None /\ hist.extend = None

C26_Witness ==
    /\ pc = "wallet"
    /\ pkIn.renew
    /\ Len(pkIn.recipients) = 2
    /\ hist.extend # None
    /\ hist.extend[1].swap.amountInMax = 1010
    /\ hist.extend[1].swap.value = Some(7)

\* A call of purchase is running on the lock; Top is the innermost one.
Running == hist.frames # <<>>
\* The step starts with the running call at the given stage.
At(stage) == Running /\ Top.at = stage
\* The step is a call of purchase made from within the running call.
Reenters == Running /\ Len(hist'.frames) = Len(hist.frames) + 1
\* The step is a call of setGasRefundBasisPoints.
Sets == hist'.sets = hist.sets + 1
\* The step ends the running call, by a revert or by a return.
Ends == Running /\ Len(hist'.frames) = Len(hist.frames) - 1
Reverts == Ends /\ hist'.reason # "none"
Returns == Ends /\ hist'.reason = "none"
\* The step takes the running call to its next stage.
Proceeds == Running /\ Len(hist'.frames) = Len(hist.frames) /\ Top'.at # Top.at
\* The step ends the transaction.
EndsTransaction == Running /\ hist'.frames = <<>>
\* The price paid by call c: _value on a token-priced lock, msg.value else.
Paid(lock, c) == IF lock.tokenAddress = ZERO THEN c.msgValue ELSE c.value

\* The reasons for which a call reverts before it collects the payment.
EnterReverts ==
    {"onlyIfAlive", "notSoldOut", "INVALID_ADDRESS",
     "A valid non-expiring key can not be purchased twice", "Panic", "keyPurchasePrice"}

\* C25 as stated: a call of purchase whose price paid (_value on a token
\* lock, msg.value otherwise) is below the purchase price reverts with
\* INSUFFICIENT_VALUE and leaves the lock as it was when the call started;
\* a price paid that is at least the price is not refused as insufficient.
C25_RevertsWithInsufficientValue ==
    [][Running =>
          LET c == Top.call
              low == Paid(loc, c) < PurchasePriceFor(loc)
          IN  /\ (low /\ Ends) =>
                    /\ Reverts
                    /\ hist'.reason = "INSUFFICIENT_VALUE"
                    /\ loc' = Top.saved
              /\ (~low /\ Ends) => hist'.reason # "INSUFFICIENT_VALUE"]_vars

\* C25, amended: a call of purchase whose price paid is below the purchase
\* price never returns: it reverts, either before the payment, for one of
\* the reasons of lines 743-800 (lock disabled, sold out, recipient zero,
\* non-expiring key, overflow of the expiration, reverting
\* keyPurchasePrice), or at the payment, where the reason is
\* INSUFFICIENT_VALUE unless the token's transferFrom of line 815 reverts
\* first (on a lock priced in the native currency it is always
\* INSUFFICIENT_VALUE).  The revert leaves the lock as it was when the call
\* started, no token id assigned, no expiration and no key manager changed,
\* and the transaction of such a call has a failed receipt without events.
\* INSUFFICIENT_VALUE is the reason of no other revert: a price paid that
\* is at least the price is never refused as insufficient, and such a call
\* goes past the price check unless the token's transferFrom reverts (on a
\* lock without hook the product of the refund, computed next, can still
\* panic).
C25_InsufficientValueReverts ==
    [][Running =>
          LET c == Top.call
              low == Paid(loc, c) < PurchasePriceFor(loc)
          IN  /\ (low /\ At("enter") /\ Reverts) => hist'.reason \in EnterReverts
              /\ (low /\ At("pay") /\ ~Reenters /\ ~Sets) =>
                    /\ Reverts
                    /\ hist'.reason \in {"INSUFFICIENT_VALUE", "transferFrom"}
                    /\ loc.tokenAddress = ZERO => hist'.reason = "INSUFFICIENT_VALUE"
              /\ (low /\ Ends) =>
                    /\ Reverts
                    /\ At("enter") \/ At("pay")
                    /\ loc' = Top.saved
                    /\ Len(hist.frames) = 1 =>
                          /\ receipt'.status = 0
                          /\ receipt'.logs = <<>>
                          /\ hist'.received = 0
              /\ (Reverts /\ hist'.reason = "INSUFFICIENT_VALUE") => low /\ At("pay")
              /\ (~low /\ At("pay") /\ Reverts) =>
                    /\ hist'.reason \in {"transferFrom", "Panic"}
                    /\ hist'.reason = "transferFrom" => loc.tokenAddress # ZERO
                    /\ hist'.reason = "Panic" => ~loc.hook]_vars

C25_Witness ==
    /\ hist.calls = 2
    /\ hist.frames = <<>>
    /\ hist.reason = "INSUFFICIENT_VALUE"
    /\ receipt.status = 0
    /\ loc.tokenAddress = TokenA
    /\ loc.keyByOwner[Signer] = NoKey
    /\ loc.keyByOwner[Recipient].tokenId = 1
    /\ loc.totalSupply = 1

\* The recipient of call c holds a key that has not expired.
HoldsValidKey(lock, c) ==
    /\ c.recipient # ZERO
    /\ lock.keyByOwner[c.recipient].tokenId # 0
    /\ lock.keyByOwner[c.recipient].expirationTimestamp > lock.now
\* The key manager of the key of holder o.
KeyManagerOfHolder(lock, o) == lock.keyManagerOf[lock.keyByOwner[o].tokenId]

\* C27: a call of purchase for a recipient who holds a key that has not
\* expired when the call starts leaves the key manager of that key as it
\* was, whatever _keyManager is passed, at every stage of the call and
\* after it, whether it returns or reverts, and whatever calls of purchase
\* are made from within it.
C27_KeyManagerIgnoredForValidKey ==
    [][\A i \in DOMAIN hist.frames :
          LET f == hist.frames[i]
          IN  HoldsValidKey(f.saved, f.call) =>
                /\ KeyManagerOfHolder(loc, f.call.recipient) =
                      KeyManagerOfHolder(f.saved, f.call.recipient)
                /\ loc'.keyByOwner[f.call.recipient].tokenId =
                      f.saved.keyByOwner[f.call.recipient].tokenId
                /\ KeyManagerOfHolder(loc', f.call.recipient) =
                      KeyManagerOfHolder(f.saved, f.call.recipient)]_vars

C27_Witness ==
    /\ Len(hist.frames) = 1
    /\ Top.at = "pay"
    /\ Top.call.recipient = Recipient
    /\ Top.call.keyManager = Manager
    /\ HoldsValidKey(Top.saved, Top.call)
    /\ Top.saved.keyByOwner[Recipient].expirationTimestamp = 2
    /\ loc.keyByOwner[Recipient] = [tokenId |-> 1, expirationTimestamp |-> 3]
    /\ loc.keyManagerOf[1] = ZERO

UnlockCallFailedLogs(logs) ==
    {i \in DOMAIN logs : logs[i].address = LockLower /\ logs[i].event = "UnlockCallFailed"}

\* C28: the failure of recordKeyPurchase of the Unlock protocol is no reason
\* of a revert.  When the protocol answers, by returning or by failing, the
\* call of purchase goes on to collect the payment; after a failure the key
\* is written as the key assignment wrote it (the recipient has a token id
\* and a later expiration, after the block time) and the call has emitted
\* exactly one UnlockCallFailed event; when the protocol returns no such
\* event is added.  The call then collects the payment as any call does
\* (the lock receives the price paid, or nothing from a token that returns
\* false), and when it returns as the call of the transaction, the receipt
\* is successful and holds the UnlockCallFailed event.
C28_UnlockFailureDoesNotRevert ==
    [][Running =>
          LET c == Top.call
              before == Top.saved.keyByOwner[c.recipient]
              after == loc'.keyByOwner[c.recipient]
          IN  /\ Reverts => hist'.reason # "recordKeyPurchase"
              /\ (At("enter") /\ Reverts) => hist'.reason \in EnterReverts
              /\ (At("enter") /\ Proceeds) => Top'.at = "record"
              /\ (At("record") /\ ~Reenters /\ ~Sets) =>
                    /\ Proceeds
                    /\ Top'.at = "pay"
                    /\ after.tokenId # 0
                    /\ after.expirationTimestamp > before.expirationTimestamp
                    /\ after.expirationTimestamp > loc.now
                    /\ Cardinality(UnlockCallFailedLogs(Top'.events)) =
                          IF Top'.unlockFailed
                          THEN 1
                          ELSE Cardinality(UnlockCallFailedLogs(Top.events))
              /\ (At("pay") /\ Top.unlockFailed /\ Reverts) =>
                    hist'.reason \in {"transferFrom", "INSUFFICIENT_VALUE", "Panic"}
              /\ (At("pay") /\ Top.unlockFailed /\ (Proceeds \/ (Returns /\ EndsTransaction))) =>
                    LET got == IF Proceeds THEN Top'.received ELSE hist'.received
                    IN  /\ got - Top.received \in {0, Paid(loc, c)}
                        /\ loc.tokenAddress = ZERO =>
                              got - Top.received = Paid(loc, c)
              /\ (Top.unlockFailed /\ Returns /\ EndsTransaction) =>
                    /\ receipt'.status = 1
                    /\ UnlockCallFailedLogs(receipt'.logs) # {}
                    /\ loc'.keyByOwner[c.recipient].tokenId # 0]_vars

C28_Witness ==
    /\ hist.calls = 1
    /\ hist.frames = <<>>
    /\ receipt.status = 1
    /\ Cardinality(UnlockCallFailedLogs(receipt.logs)) = 1
    /\ loc.tokenAddress = TokenA
    /\ hist.received = 2
    /\ hist.nested = 0
    /\ loc.now = 2
    /\ loc.keyByOwner[Recipient] = [tokenId |-> 1, expirationTimestamp |-> 3]

\* The holders of a key of the lock that never expires.
NonExpiring(lock) ==
    {o \in Holders : lock.keyByOwner[o].tokenId # 0
                       /\ lock.keyByOwner[o].expirationTimestamp = MaxUint}

\* C29: a call of purchase for a recipient who holds a valid key that never
\* expires (expiration equal to the maximum value) reverts before it
\* collects anything, with the message of line 778 on a lock that is alive
\* and not sold out, and leaves the lock as it was; and no call of purchase,
\* with whatever calls are made from within it, and no other step, changes
\* such a key or its manager, so that its holder can never purchase again.
C29_NonExpiringKeyNotPurchasedTwice ==
    [][/\ (At("enter") /\ Top.call.recipient \in NonExpiring(loc)) =>
             /\ Reverts
             /\ hist'.reason \in {"onlyIfAlive", "notSoldOut",
                                  "A valid non-expiring key can not be purchased twice"}
             /\ (loc.isAlive /\ loc.maxNumberOfKeys > loc.totalSupply) =>
                   hist'.reason = "A valid non-expiring key can not be purchased twice"
             /\ loc' = loc
             /\ Len(hist.frames) = 1 =>
                   /\ receipt'.status = 0
                   /\ receipt'.logs = <<>>
                   /\ hist'.received = 0
       /\ \A i \in DOMAIN hist.frames : \A o \in NonExpiring(hist.frames[i].saved) :
             /\ loc'.keyByOwner[o] = hist.frames[i].saved.keyByOwner[o]
             /\ KeyManagerOfHolder(loc', o) = KeyManagerOfHolder(hist.frames[i].saved, o)
       /\ ~Running => \A o \in NonExpiring(loc) :
             /\ loc'.keyByOwner[o] = loc.keyByOwner[o]
             /\ KeyManagerOfHolder(loc', o) = KeyManagerOfHolder(loc, o)]_vars

C29_Witness ==
    /\ hist.calls = 2
    /\ hist.frames = <<>>
    /\ receipt.status = 0
    /\ hist.reason = "A valid non-expiring key can not be purchased twice"
    /\ loc.expirationDuration = MaxUint
    /\ loc.keyByOwner[Recipient] = [tokenId |-> 1, expirationTimestamp |-> MaxUint]
    /\ loc.keyByOwner[Signer] = NoKey
    /\ loc.keyManagerOf[1] = Manager

\* The logs of the lock with the given event name.
LockLogs(logs, name) ==
    {i \in DOMAIN logs : logs[i].address = LockLower /\ logs[i].event = name}
\* The recipient of call c has a token id on the lock.
HadTokenId(lock, c) ==
    c.recipient # ZERO /\ lock.keyByOwner[c.recipient].tokenId # 0
\* The token id of the first Transfer event of the lock in the logs.
FirstTransferred(logs) ==
    LET hits == LockLogs(logs, "Transfer")
    IN  logs[CHOOSE i \in hits : \A j \in hits : i <= j].tokenId
NullResult == [kind |-> "returned", value |-> None, error |-> "none"]

\* C30, as stated: after a successful purchase for a recipient who already
\* holds a key the client's purchase function returns null.
C30_NullForExistingHolder ==
    [][(EndsTransaction /\ receipt'.status = 1
            /\ HadTokenId(hist.frames[1].saved, hist.frames[1].call)) =>
          result' = NullResult]_vars

\* C30: a call of purchase emits a Transfer event of the lock only when the
\* recipient had no token id when the call started, and then exactly one,
\* with the new token id, and no RenewKeyPurchase; for a recipient who had a
\* token id (valid or expired key) it emits one RenewKeyPurchase and no
\* Transfer; the later stages of the call emit neither (a failure of the
\* Unlock protocol drops those of the calls made within it).  The receipt of a
\* successful transaction holds the events of its call and of the calls of
\* purchase made from within it, so the client returns the token id of the
\* first Transfer of the lock in the receipt and null when there is none;
\* in a transaction without a call of purchase made from within, it returns
\* a token id exactly when the recipient held no key, and null after a
\* successful purchase for a recipient who already held one.
C30_TransferOnlyForNewKey ==
    [][Running =>
          LET c == Top.call
          IN  /\ (At("enter") /\ Proceeds) =>
                    LET transfers == LockLogs(Top'.events, "Transfer")
                        renewals == LockLogs(Top'.events, "RenewKeyPurchase")
                    IN  IF HadTokenId(loc, c)
                        THEN transfers = {} /\ Cardinality(renewals) = 1
                        ELSE /\ Cardinality(transfers) = 1
                             /\ renewals = {}
                             /\ FirstTransferred(Top'.events) =
                                   loc'.keyByOwner[c.recipient].tokenId
              /\ (~At("enter") /\ Proceeds) =>
                    /\ Cardinality(LockLogs(Top'.events, "Transfer")) <=
                          Cardinality(LockLogs(Top.events, "Transfer"))
                    /\ Cardinality(LockLogs(Top'.events, "RenewKeyPurchase")) <=
                          Cardinality(LockLogs(Top.events, "RenewKeyPurchase"))
                    /\ ~(At("record") /\ Top'.unlockFailed) =>
                          /\ Cardinality(LockLogs(Top'.events, "Transfer")) =
                                Cardinality(LockLogs(Top.events, "Transfer"))
                          /\ Cardinality(LockLogs(Top'.events, "RenewKeyPurchase")) =
                                Cardinality(LockLogs(Top.events, "RenewKeyPurchase"))
              /\ EndsTransaction =>
                    LET first == hist.frames[1]
                        transfers == LockLogs(receipt'.logs, "Transfer")
                    IN  /\ result'.value # None <=> transfers # {}
                        /\ receipt'.status = 0 => transfers = {}
                        /\ transfers # {} =>
                              result' = [kind |-> "returned",
                                         value |-> Some(FirstTransferred(receipt'.logs)),
                                         error |-> "none"]
                        /\ (receipt'.status = 1 /\ transfers = {}) =>
                              result' = NullResult
                        /\ (receipt'.status = 1 /\ hist'.nested = 0) =>
                              IF HadTokenId(first.saved, first.call)
                              THEN result' = NullResult
                              ELSE result' =
                                     [kind |-> "returned",
                                      value |-> Some(loc'.keyByOwner[first.call.recipient].tokenId),
                                      error |-> "none"]]_vars

C30_Witness ==
    /\ hist.calls = 2
    /\ hist.frames = <<>>
    /\ receipt.status = 1
    /\ hist.nested = 1
    /\ loc.tokenAddress = TokenA
    /\ \E i \in DOMAIN receipt.logs :
          receipt.logs[i].address = TokenA /\ receipt.logs[i].event = "Transfer"
    /\ \E i \in LockLogs(receipt.logs, "RenewKeyPurchase") : i = 1
    /\ \E i \in LockLogs(receipt.logs, "Transfer") : receipt.logs[i].tokenId = 2
    /\ result = [kind |-> "returned", value |-> Some(2), error |-> "none"]
    /\ loc.totalSupply = 2
    /\ loc.keyByOwner[Recipient] = [tokenId |-> 1, expirationTimestamp |-> 3]
    /\ loc.keyByOwner[Signer].tokenId = 2

\* The expiration of holder o's key on the lock.
ExpirationOf(lock, o) == lock.keyByOwner[o].expirationTimestamp

\* C31: the block time never goes back, and the expiration of a key is
\* never smaller after a call of purchase that returns than when the call
\* started, and changes in no step but the writing of the key in a call of
\* purchase, the revert of a call, which puts back the expirations of the
\* start of that call, and the failure of the Unlock protocol, which puts
\* back those the call had written before it called the protocol.  A call that writes the key of a recipient whose key
\* is valid adds expirationDuration to its expiration; one for a recipient
\* without a key or with an expired key sets the expiration to the block
\* time plus expirationDuration, or to the maximum value on a lock whose
\* keys do not expire; the keys of the other holders stay as they were.
C31_ExpirationNeverDecreases ==
    [][/\ loc'.now >= loc.now
       /\ ~Running => \A o \in Holders : ExpirationOf(loc', o) = ExpirationOf(loc, o)
       /\ Running =>
             LET c == Top.call
             IN  /\ Reverts =>
                       \A o \in Holders :
                          ExpirationOf(loc', o) = ExpirationOf(Top.saved, o)
                 /\ Returns =>
                       /\ \A o \in Holders :
                             /\ ExpirationOf(loc', o) = ExpirationOf(loc, o)
                             /\ ExpirationOf(loc', o) >= ExpirationOf(Top.saved, o)
                       /\ ExpirationOf(loc', c.recipient) >
                             ExpirationOf(Top.saved, c.recipient)
                 /\ Reenters =>
                       \A o \in Holders : ExpirationOf(loc', o) = ExpirationOf(loc, o)
                 /\ Sets =>
                       \A o \in Holders : ExpirationOf(loc', o) = ExpirationOf(loc, o)
                 /\ (Proceeds /\ ~At("enter")) =>
                       IF At("record") /\ Top'.unlockFailed
                       THEN /\ ExpirationOf(loc', c.recipient) >
                                  ExpirationOf(Top.saved, c.recipient)
                            /\ \A o \in Holders \ {c.recipient} :
                                  ExpirationOf(loc', o) = ExpirationOf(Top.saved, o)
                       ELSE \A o \in Holders :
                               ExpirationOf(loc', o) = ExpirationOf(loc, o)
                 /\ (At("enter") /\ ~Reverts) =>
                       /\ c.recipient \in Holders
                       /\ ExpirationOf(loc', c.recipient) =
                             IF HoldsValidKey(loc, c)
                             THEN ExpirationOf(loc, c.recipient) + loc.expirationDuration
                             ELSE IF loc.expirationDuration = MaxUint
                             THEN MaxUint
                             ELSE loc.now + loc.expirationDuration
                       /\ ExpirationOf(loc', c.recipient) > loc.now
                       /\ ExpirationOf(loc', c.recipient) <= MaxUint
                       /\ \A o \in Holders \ {c.recipient} :
                             ExpirationOf(loc', o) = ExpirationOf(loc, o)]_vars

C31_Witness ==
    /\ hist.calls = 1
    /\ hist.frames = <<>>
    /\ receipt.status = 1
    /\ hist.nested = 0
    /\ loc.now = 2
    /\ loc.expirationDuration = 1
    /\ loc.keyByOwner[Recipient] = [tokenId |-> 1, expirationTimestamp |-> 3]
    /\ \E i \in LockLogs(receipt.logs, "RenewKeyPurchase") : receipt.logs[i].arg = 3
    /\ loc.keyByOwner[Signer] = NoKey
\* The gas limit and the three fee parameters of the options.
GasFields(opts) ==
    <<opts.gasLimit, opts.gasPrice, opts.maxFeePerGas, opts.maxPriorityFeePerGas>>
FeeFields(opts) == <<opts.gasPrice, opts.maxFeePerGas, opts.maxPriorityFeePerGas>>
\* The spending calls made so far: the one built and the ones broadcast.
Submitted ==
    (IF hist.built = None THEN {} ELSE {hist.built[1]})
        \cup {hist.sent[i] : i \in DOMAIN hist.sent}
NoFeeQuery ==
    /\ ~Happened("feeData") /\ ~Happened("feeData:failed")
    /\ ~Happened("estimateGas") /\ ~Happened("estimateGas:failed")
    /\ hist.estimate = None
    /\ hist.gas = None

\* C32 as stated: with a gas limit from the caller there is no fee-data
\* fetch and no gas estimate, and the spending call is submitted with the
\* caller's gas limit and fee parameters; with fee parameters but no gas
\* limit from the caller, the submitted call still holds those fee
\* parameters.
C32_CallerFeesKept ==
    /\ pkIn.opts.gasLimit # None =>
          /\ NoFeeQuery
          /\ \A call \in Submitted : GasFields(call.opts) = GasFields(pkIn.opts)
    /\ (pkIn.opts.gasLimit = None /\ ~NoFeeOverrides(pkIn.opts)) =>
          \A call \in Submitted : FeeFields(call.opts) = FeeFields(pkIn.opts)

\* C32, amended: with a non-zero gas limit from the caller there is no
\* fee-data fetch and no gas estimate, and the spending call is submitted
\* with the caller's gas limit and fee parameters; without one (absent or
\* zero), the fee data is asked for and the submitted call holds no gasPrice,
\* maxFeePerGas or maxPriorityFeePerGas, whatever the caller passed.
C32_CallerFeesKeptOnlyWithGasLimit ==
    /\ Truthy(pkIn.opts.gasLimit) =>
          /\ NoFeeQuery
          /\ txOpts.gasLimit = pkIn.opts.gasLimit
          /\ \A call \in Submitted : GasFields(call.opts) = GasFields(pkIn.opts)
    /\ ~Truthy(pkIn.opts.gasLimit) =>
          /\ Submitted # {} => Happened("feeData") \/ Happened("feeData:failed")
          /\ \A call \in Submitted :
                /\ call.opts.gasPrice = None
                /\ call.opts.maxFeePerGas = None
                /\ call.opts.maxPriorityFeePerGas = None

C32_Witness ==
    /\ pkIn.opts.gasLimit = None
    /\ pkIn.opts.maxFeePerGas = Some(9)
    /\ pkIn.opts.maxPriorityFeePerGas = Some(2)
    /\ Happened("estimateGas")
    /\ Len(hist.sent) = 1
    /\ hist.sent[1].opts.maxFeePerGas = None
    /\ hist.sent[1].opts.maxPriorityFeePerGas = None
    /\ hist.sent[1].opts.gasLimit # None

====
